---------------------------- MODULE Spec2Model ----------------------------
(***************************************************************************)
(* A model of the tool-call boundary of the Zig MCP server                 *)
(* (src/src/index.ts, the modular server of lines 1007-2290, with          *)
(* src/src/utils.ts and src/src/zig-build.ts).                             *)
(*                                                                         *)
(* The server is stateless between calls: a request arrives, the handler   *)
(* of CallToolRequestSchema runs to completion (a result or a thrown       *)
(* error), the transport carries the answer away.                          *)
(*                                                                         *)
(* Text.  A source text is a sequence of lexemes.  Its rendering joins     *)
(* the lexemes with single spaces, except that nothing separates "(" from  *)
(* what follows it, ")" from what precedes it, a callee from its "(", or   *)
(* a lexeme from a following member access (Sep below).  The regular       *)
(* expressions of the source are translated lexeme by lexeme: a character  *)
(* class becomes the set of lexemes all of whose characters it admits, a   *)
(* literal becomes the lexemes that end (or begin) with it, \s* between    *)
(* lexemes is always satisfied and \s+ asks for a separator.               *)
(***************************************************************************)
EXTENDS Integers, Sequences, FiniteSets, TLC

VARIABLES
  phase,    \* "idle": awaiting a request; "done": a handler has run
  call,     \* request.params of the call handled last: [name, hasArgs, args]
  outcome,  \* what the handler produced: a result, or the error it threw
  trace,    \* the methods the handler entered, in order
  kept,     \* history: one earlier call and its answer, written down by an
            \* observer of the server (the server itself keeps nothing)
  lastIndex \* the lastIndex property of each regular expression object
            \* of the static pattern tables of ZigCodeAnalyzer

vars == <<phase, call, outcome, trace, kept, lastIndex>>

(***************************************************************************)
(* Bounds of the model.                                                    *)
(***************************************************************************)
MaxOptLines == 2      \* lines of the sample program in an optimize_code text
MaxNodes == 3         \* statements of a code sample
MaxBuildLines == 5    \* lines of a build file
MaxDeps == 2          \* entries of a dependencies list
MaxPromptWords == 2   \* words of a prompt
MaxBuckets == 2       \* buckets of a findings object
MaxFindings == 2      \* findings of a bucket
MaxCodeLines == 2     \* lines of a text that a classifier reads
MaxRepos == 1         \* repositories of a search result
MaxScanLines == 3     \* lines of a text whose loop depth is measured
MaxPieces == 2        \* pieces of a prompt given to parseRequirements

(***************************************************************************)
(* JavaScript values of an argument bag.  v is the value's string form     *)
(* (String(x)); for a string that stands for source text it is the         *)
(* sequence of lexemes.                                                    *)
(***************************************************************************)
Undefined == [t |-> "undefined", v |-> "undefined"]
Null == [t |-> "null", v |-> "null"]
Num(s) == [t |-> "number", v |-> s]
Str(s) == [t |-> "string", v |-> s]
Arr1(s) == [t |-> "array", v |-> s]       \* the one-element array [s]
Obj == [t |-> "object", v |-> "[object Object]"]

IsString(x) == x.t = "string"
Nullish(x) == x.t \in {"undefined", "null"}

(***************************************************************************)
(* Sequences.                                                              *)
(***************************************************************************)
RECURSIVE Flatten(_)
Flatten(ss) == IF ss = <<>> THEN <<>> ELSE Head(ss) \o Flatten(Tail(ss))

RECURSIVE SumOver(_, _, _)
\* f[lo] + ... + f[hi]
SumOver(f, lo, hi) == IF lo > hi THEN 0 ELSE f[lo] + SumOver(f, lo + 1, hi)

\* The subsequences of s (order kept) of at most n elements.
RECURSIVE SubSeqsUpTo(_, _)
SubSeqsUpTo(s, n) ==
  IF n = 0 \/ s = <<>> THEN {<<>>}
  ELSE SubSeqsUpTo(Tail(s), n)
       \cup {<<Head(s)>> \o r : r \in SubSeqsUpTo(Tail(s), n - 1)}

\* needle occurs in text as a run of adjacent lexemes
HasRun(text, needle) ==
  \E i \in 1..(Len(text) - Len(needle) + 1) :
     \A k \in 1..Len(needle) : text[i + k - 1] = needle[k]

(***************************************************************************)
(* The lexemes of the sample texts and their character content.            *)
(***************************************************************************)
\* made of word characters only (\w+)
Words ==
  {"for", "while", "if", "fn", "var", "const", "try", "true", "return",
   "void", "struct", "x", "y", "n", "s", "v", "a", "list", "items", "sum",
   "u8", "allocator", "foo", "bar", "small", "42", "comptime", "buf"}
\* dotted names: begin and end with a word character
Dotted ==
  {"std.ArrayList", "std.fmt.allocPrint", "std.fmt.print", "std.crypto",
   "std.hash", "std.math", "std.HashMap", "std.MultiArrayList",
   "std.heap.ArenaAllocator", "std.heap.FixedBufferAllocator",
   "std.heap.GeneralPurposeAllocator", "std.heap.page_allocator"}
\* end with a word character, begin with another one
Prefixed ==
  {"@intCast", "@setRuntimeSafety", ".init", ".initCapacity", "[]f32",
   "[]f64", "[]u8", "[16]u8", "$1", "expected_capacity"}
Punct == {"(", ")", "{", "}", "|", ";", ",", "=", "+", ":"}
\* a statement too long for a 50-character window
LongStmt == "compute_checksum_of_all_remaining_bytes_in_the_input_buffer"
Lexemes == Words \cup Dotted \cup Prefixed \cup Punct \cup {LongStmt}

StartsWord == Words \cup Dotted \cup {"expected_capacity", LongStmt}
EndsWord == Words \cup Dotted \cup Prefixed \cup {LongStmt}
StartsDigit == {"42"}
Keywords ==
  {"for", "while", "if", "return", "try", "const", "var", "fn", "comptime"}
\* contain one of + - * /
ArithLexemes == {"+"}
\* contain "for" or "while"
LoopLexemes == {"for", "while"}

Not(S) == Lexemes \ S

\* String.prototype.includes on one string
StrIncludes(s, needle) ==
  \E i \in 1..(Len(s) - Len(needle) + 1) : SubSeq(s, i, i + Len(needle) - 1) = needle
Has(lexeme, needle) == StrIncludes(lexeme, needle)

\* String.prototype.includes
IncludesStr(text, needle) == \E i \in DOMAIN text : Has(text[i], needle)

\* characters between two adjacent lexemes in the rendering
Sep(a, b) ==
  IF a = "(" \/ b \in {")", ";", ","} THEN 0
  ELSE IF b = "(" /\ a \in EndsWord \ Keywords THEN 0
  ELSE IF b \in {".init", ".initCapacity"} THEN 0
  ELSE 1

\* characters strictly between the lexemes at positions i < j
GapWidth(text, i, j) ==
  SumOver([k \in DOMAIN text |-> Len(text[k])], i + 1, j - 1)
  + SumOver([k \in 1..(Len(text) - 1) |-> Sep(text[k], text[k + 1])], i, j - 1)

(***************************************************************************)
(* Regular expressions over lexemes: a pattern is a sequence of elements,  *)
(* each a class taken once or repeated (greedy, with backtracking).  gap   *)
(* says what the expression allows between the element and the lexeme      *)
(* before it: "any" (\s*, or the class before admits white space),         *)
(* "none" (adjacent literals), "some" (\s+).  w, when given, bounds the    *)
(* characters the element spans ({1,50}).                                  *)
(***************************************************************************)
One(S) == [cls |-> S, lo |-> 1, many |-> FALSE, gap |-> "any", w |-> <<>>]
Adj(S) == [cls |-> S, lo |-> 1, many |-> FALSE, gap |-> "none", w |-> <<>>]
Spaced(S) == [cls |-> S, lo |-> 1, many |-> FALSE, gap |-> "some", w |-> <<>>]
Star(S) == [cls |-> S, lo |-> 0, many |-> TRUE, gap |-> "any", w |-> <<>>]
Plus(S) == [cls |-> S, lo |-> 1, many |-> TRUE, gap |-> "any", w |-> <<>>]
Chars(S, a, b) == [cls |-> S, lo |-> 0, many |-> TRUE, gap |-> "any", w |-> <<a, b>>]
\* \s after a literal: a separator follows, and no lexeme is consumed
Space == [cls |-> {}, lo |-> 0, many |-> FALSE, gap |-> "space", w |-> <<>>]

RECURSIVE Run(_, _, _, _)
\* the number of lexemes from pos on that lie in cls, at most hi
Run(cls, text, pos, hi) ==
  IF hi = 0 \/ pos > Len(text) \/ text[pos] \notin cls THEN 0
  ELSE 1 + Run(cls, text, pos + 1, hi - 1)

GapOk(e, text, pos, n) ==
  \/ e.gap = "space" /\ pos > 1 /\ pos <= Len(text)
       /\ Sep(text[pos - 1], text[pos]) > 0
  \/ e.gap # "space" /\ (n = 0 \/ pos = 1)
  \/ e.gap = "any"
  \/ e.gap = "none" /\ Sep(text[pos - 1], text[pos]) = 0
  \/ e.gap = "some" /\ Sep(text[pos - 1], text[pos]) > 0

WidthOk(e, text, pos, n) ==
  \/ e.w = <<>>
  \/ /\ e.w # <<>>
     /\ pos > 1
     /\ pos + n <= Len(text)
     /\ GapWidth(text, pos - 1, pos + n) >= e.w[1]
     /\ GapWidth(text, pos - 1, pos + n) <= e.w[2]

RECURSIVE MatchFrom(_, _, _, _)
RECURSIVE TryDown(_, _, _, _, _)
\* The position after the match of pat[pi..] that begins at pos; 0: none.
MatchFrom(pat, pi, text, pos) ==
  IF pi > Len(pat) THEN pos
  ELSE LET e == pat[pi]
           most == Run(e.cls, text, pos, IF e.many THEN Len(text) ELSE 1)
       IN IF most < e.lo THEN 0 ELSE TryDown(pat, pi, text, pos, most)
TryDown(pat, pi, text, pos, n) ==
  LET e == pat[pi]
      r == IF GapOk(e, text, pos, n) /\ WidthOk(e, text, pos, n)
           THEN MatchFrom(pat, pi + 1, text, pos + n)
           ELSE 0
  IN IF r # 0 THEN r
     ELSE IF n > e.lo THEN TryDown(pat, pi, text, pos, n - 1)
     ELSE 0

\* where the search goes on after the match m: an empty match moves it on
NextSearch(m) == IF m[2] > m[1] THEN m[2] ELSE m[1] + 1
RECURSIVE FirstMatch(_, _, _)
\* <<start, end>> of the leftmost match at or after from; <<0, 0>>: none
FirstMatch(pat, text, from) ==
  IF from > Len(text) THEN <<0, 0>>
  ELSE LET e == MatchFrom(pat, 1, text, from)
       IN IF e # 0 THEN <<from, e>> ELSE FirstMatch(pat, text, from + 1)

\* code.match(/re/) is not null
Matches(pat, text) == FirstMatch(pat, text, 1)[1] # 0

RECURSIVE CountFrom(_, _, _)
CountFrom(pat, text, from) ==
  LET m == FirstMatch(pat, text, from)
  IN IF m[1] = 0 THEN 0
     ELSE 1 + CountFrom(pat, text, IF m[2] > m[1] THEN m[2] ELSE m[1] + 1)
\* (code.match(/re/g) || []).length
MatchCount(pat, text) == CountFrom(pat, text, 1)

(***************************************************************************)
(* What a handler produces.  A result is {content: [{type: 'text', text}]} *)
(* with text a sequence of lines, each line a sequence of string pieces    *)
(* (the literal parts of the template and the values interpolated).        *)
(***************************************************************************)
NoOutcome == [kind |-> "none", code |-> "", param |-> "", text |-> <<>>]
Result(text) == [kind |-> "result", code |-> "", param |-> "", text |-> text]
\* new McpError(ErrorCode.InvalidParams, paramName + ' parameter must be a string')
InvalidParams(paramName) ==
  [kind |-> "McpError", code |-> "InvalidParams", param |-> paramName, text |-> <<>>]
\* a TypeError raised by the runtime (a property read of undefined, a call of
\* something that is no function)
TypeError == [kind |-> "TypeError", code |-> "", param |-> "", text |-> <<>>]

\* no request
NoCall == [name |-> "", hasArgs |-> FALSE, args |-> <<>>]
\* nothing written down by the observer
NothingKept == [call |-> NoCall, outcome |-> NoOutcome]

\* the code fence of a report, three backquotes (a character that a string
\* of this language cannot hold)
Fence == "'''"

Bullets(items) == [i \in DOMAIN items |-> <<"- ", items[i]>>]

\* the lines of a report between the line header and the next empty line
RECURSIVE TakeBlock(_)
TakeBlock(ls) ==
  IF ls = <<>> \/ Head(ls) = <<>> THEN <<>> ELSE <<Head(ls)>> \o TakeBlock(Tail(ls))
RECURSIVE Section(_, _)
Section(ls, header) ==
  IF ls = <<>> THEN <<>>
  ELSE IF Head(ls) = header THEN TakeBlock(Tail(ls))
  ELSE Section(Tail(ls), header)

(***************************************************************************)
(* validateStringParam: throws unless typeof value === 'string'.           *)
(***************************************************************************)
\* a validator that also refuses the empty string: if (!value || typeof ...)
validateNonEmptyStringParam(value) == IsString(value) /\ Len(value.v) > 0
validateStringParam(value) == IsString(value)

(***************************************************************************)
(* optimize_code                                                           *)
(***************************************************************************)
\* the enum of the tool's input schema / ZIG_OPTIMIZATION_LEVELS
OptimizationLevels == {"Debug", "ReleaseSafe", "ReleaseFast", "ReleaseSmall"}

buildModeOpts ==
  [Debug |->
     <<"Debug symbols enabled",
       "Runtime safety checks enabled",
       "No optimizations - fastest compile time">>,
   ReleaseSafe |->
     <<"Runtime safety checks enabled",
       "Optimizations enabled",
       "Good balance of safety and performance">>,
   ReleaseFast |->
     <<"Runtime safety checks disabled",
       "Maximum performance optimizations",
       "Consider adding debug assertions for critical paths",
       "Use @setRuntimeSafety(true) for critical sections if needed">>,
   ReleaseSmall |->
     <<"Size optimizations enabled",
       "Consider removing debug information",
       "Minimize template instantiations",
       "Use packed structs to reduce memory footprint">>]

\* buildModeOpts[level] with the fallback of the first server (index.ts:359)
ModeSpecificOptsWithFallback(level) ==
  IF level.v \in DOMAIN buildModeOpts
  THEN [isArray |-> TRUE, items |-> buildModeOpts[level.v]]
  ELSE [isArray |-> TRUE, items |-> buildModeOpts.ReleaseSafe]
\* buildModeOpts[level] cut to its first entry
ModeSpecificOptsFirstOnly(level) ==
  IF level.v \in DOMAIN buildModeOpts
  THEN [isArray |-> TRUE, items |-> SubSeq(buildModeOpts[level.v], 1, 1)]
  ELSE [isArray |-> FALSE, items |-> <<>>]
\* const modeSpecificOpts = buildModeOpts[level]: the value is converted to
\* a property key; a key that is no own property gives undefined or an
\* inherited member of Object.prototype, neither of which is an array
ModeSpecificOpts(level) ==
  IF level.v \in DOMAIN buildModeOpts
  THEN [isArray |-> TRUE, items |-> buildModeOpts[level.v]]
  ELSE [isArray |-> FALSE, items |-> <<>>]

\* /while\s*\(true\)/
ReWhileTrue == <<One({"while"}), One({"("}), Adj({"true"}), Adj({")"})>>
\* /for\s*\([^)]*\)\s*\{[^}]*std\.fmt\.print/
ReForPrint ==
  <<One({"for"}), One({"("}), Star(Not({")"})), One({")"}), One({"{"}),
    Star(Not({"}"})), One({"std.fmt.print"})>>
\* /for\s*\([^)]*\)\s*\|[^|]*\|\s*{[^}]*[+\-*/][^}]*}/
ReForArith ==
  <<One({"for"}), One({"("}), Star(Not({")"})), One({")"}), One({"|"}),
    Star(Not({"|"})), One({"|"}), One({"{"}), Star(Not({"}"})),
    One(ArithLexemes), Star(Not({"}"})), One({"}"})>>
\* /const\s+\w+\s*=\s*\d+/
ReConstNumber ==
  <<One({"const"}), Spaced(Words), One({"="}), One(StartsDigit)>>
\* /fn\s+\w+[^{]*{[^}]{1,50}}/
ReSmallFn ==
  <<One({"fn"}), Spaced(StartsWord), Star(Not({"{"})), One({"{"}),
    Chars(Not({"}"}), 1, 50), One({"}"})>>
\* /std\.ArrayList\([^)]+\)\.init\([^)]+\)/
ReArrayListInit ==
  <<One({"std.ArrayList"}), Adj({"("}), Plus(Not({")"})), One({")"}),
    Adj({".init"}), Adj({"("}), Plus(Not({")"})), One({")"})>>

When(cond, msgs) == IF cond THEN msgs ELSE <<>>

\* the general findings of optimizeCode, in the order of its checks
Optimizations(code) ==
  Flatten(<<
    When(IncludesStr(code, "std.ArrayList"),
         <<"Consider pre-allocating ArrayList capacity if size is known",
           "Use ArrayListUnmanaged for better cache locality and reduced indirection">>),
    When(IncludesStr(code, "std.fmt.allocPrint"),
         <<"Consider using std.fmt.bufPrint for stack allocation when possible">>),
    When(Matches(ReWhileTrue, code),
         <<"Consider using labeled breaks instead of while(true)">>),
    When(IncludesStr(code, "@intCast") /\ ~IncludesStr(code, "try"),
         <<"Use safe integer casting: try std.math.cast() instead of @intCast">>),
    When(Matches(ReForPrint, code),
         <<"Avoid I/O operations in hot loops for better performance">>),
    When(Matches(ReForArith, code),
         <<"Consider using @Vector for SIMD operations on numeric arrays">>),
    When(IncludesStr(code, "[]f32") \/ IncludesStr(code, "[]f64"),
         <<"Float arrays can benefit from vectorized operations using @Vector">>),
    When(Matches(ReConstNumber, code),
         <<"Move constant calculations to comptime using comptime var">>),
    When(IncludesStr(code, "std.crypto") \/ IncludesStr(code, "std.hash"),
         <<"Consider comptime evaluation for constant hash/crypto operations">>),
    When(HasRun(code, <<"struct", "{">>),
         <<"Consider using packed struct for memory efficiency if appropriate",
           "Order struct fields by size (largest first) for optimal packing">>),
    When(Matches(ReSmallFn, code),
         <<"Consider @inline for small hot functions (under ~50 lines)">>),
    When(IncludesStr(code, "std.math"),
         <<"Use builtin math functions like @sqrt, @sin, @cos for better performance">>),
    When(IncludesStr(code, "std.HashMap"),
         <<"Consider ArrayHashMap for better cache locality with small datasets",
           "Use HashMap.initWithContext for custom hash/equality functions">>),
    When(IncludesStr(code, "std.MultiArrayList"),
         <<"MultiArrayList provides better cache efficiency for struct-of-arrays pattern">>)
  >>)

\* String.prototype.replace with a pattern that is not global: the leftmost
\* match gives way to the replacement
ReplaceFirst(text, pat, replacement) ==
  LET m == FirstMatch(pat, text, 1)
  IN IF m[1] = 0 THEN text
     ELSE SubSeq(text, 1, m[1] - 1) \o replacement \o SubSeq(text, m[2], Len(text))

\* the lines of generateOptimizedCodeSuggestions(code, level)
generateOptimizedCodeSuggestions(code, level) ==
  LET replaced ==
        IF IncludesStr(code, "std.ArrayList") /\ ~IncludesStr(code, "initCapacity")
        THEN ReplaceFirst(code, ReArrayListInit,
               <<"std.ArrayList", "(", "$1", ")", ".initCapacity", "(",
                 "allocator", ",", "expected_capacity", ")">>)
        ELSE code
  IN IF IsString(level) /\ level.v = "ReleaseFast"
        /\ ~IncludesStr(replaced, "@setRuntimeSafety")
     THEN <<<<"// Consider adding runtime safety for critical sections:">>,
            <<"// @setRuntimeSafety(true);">>,
            <<>>,
            replaced>>
     ELSE <<replaced>>

NoOptimizations == <<"- No immediate optimization opportunities detected">>

\* optimizeCode(code, level): the report, or the TypeError of
\* modeSpecificOpts.map when buildModeOpts[level] is no array
optimizeCode(code, level) ==
  LET optimizations == Optimizations(code)
      modeSpecificOpts == ModeSpecificOpts(level)
  IN IF ~modeSpecificOpts.isArray THEN TypeError
     ELSE Result(
       <<<<"# Optimization Analysis for ", level.v>>,
         <<>>,
         <<"## General Optimizations:">>>>
       \o (IF Len(optimizations) > 0 THEN Bullets(optimizations)
           ELSE <<NoOptimizations>>)
       \o <<<<>>,
            <<"## Build Mode Specific:">>>>
       \o Bullets(modeSpecificOpts.items)
       \o <<<<>>,
            <<"## Modern Zig Patterns to Consider:">>,
            <<"- Use comptime for compile-time computations">>,
            <<"- Leverage Zig's zero-cost abstractions">>,
            <<"- Consider using packed structs for memory efficiency">>,
            <<"- Use defer for automatic cleanup">>,
            <<"- Implement proper error handling with error unions">>,
            <<>>,
            <<"## Optimized Code Suggestions:">>,
            <<Fence, "zig">>>>
       \o generateOptimizedCodeSuggestions(code, level)
       \o <<<<Fence>>>>)

\* the sample program an optimize_code text takes its lines from
OptProgram ==
  << <<"var", "list", "=", "std.ArrayList", "(", "u8", ")", ".init", "(",
       "allocator", ")", ";">>,
     <<"const", "s", "=", "try", "std.fmt.allocPrint", "(", "a", ")", ";">>,
     <<"while", "(", "true", ")", "{", "}">>,
     <<"const", "y", "=", "@intCast", "(", "x", ")", ";">>,
     <<"for", "(", "items", ")", "{", "std.fmt.print", "(", "x", ")", ";", "}">>,
     <<"for", "(", "items", ")", "|", "v", "|", "{", "sum", "=", "sum", "+",
       "v", ";", "}">>,
     <<"var", "a", ":", "[]f32", ";">>,
     <<"const", "n", "=", "42", ";">>,
     <<"std.hash">>,
     <<"const", "s", "=", "struct", "{", "}", ";">>,
     <<"fn", "small", "(", ")", "void", "{", "return", ";", "}">>,
     <<"fn", "foo", "(", ")", "void", "{", LongStmt, ";", "}">>,
     <<"std.math">>,
     <<"std.HashMap">>,
     <<"std.MultiArrayList">>,
     <<"@setRuntimeSafety", "(", "true", ")", ";">> >>
OptTexts == {Flatten(sel) : sel \in SubSeqsUpTo(OptProgram, MaxOptLines)}

\* values a caller may put in a string parameter
NonStrings == {Undefined, Null, Num("0"), Obj, Arr1("x")}
\* values of optimizationLevel: absent, null, the four members, other
\* strings, a number, one-element arrays
LevelArgs ==
  {Undefined, Null, Num("0"), Arr1("Debug"), Arr1("ReleaseFast")}
  \cup {Str(l) : l \in OptimizationLevels}
  \cup {Str(l) : l \in {"", "Fast", "releasefast", "constructor"}}

\* args.optimizationLevel ?? 'ReleaseSafe'
OrReleaseSafe(level) == IF Nullish(level) THEN Str("ReleaseSafe") ELSE level

\* case 'optimize_code' of the CallToolRequestSchema handler
HandleOptimizeCode(args) ==
  IF ~validateStringParam(args.code)
  THEN [out |-> InvalidParams("code"), trace |-> <<"validateStringParam">>]
  ELSE [out |-> optimizeCode(args.code.v, OrReleaseSafe(args.optimizationLevel)),
        trace |-> <<"validateStringParam", "optimizeCode">>]

CallOptimizeCode ==
  /\ phase = "idle"
  /\ \E hasArgs \in BOOLEAN :
     \E code \in IF hasArgs THEN NonStrings \cup {Str(t) : t \in OptTexts}
                 ELSE {Undefined} :
     \E level \in IF hasArgs THEN LevelArgs ELSE {Undefined} :
       LET args == [code |-> code, optimizationLevel |-> level]
           h == HandleOptimizeCode(args)
       IN /\ call' = [name |-> "optimize_code", hasArgs |-> hasArgs, args |-> args]
          /\ outcome' = h.out
          /\ trace' = h.trace
  /\ phase' = "done"
  /\ UNCHANGED <<kept, lastIndex>>

(***************************************************************************)
(* estimate_compute_units: ZigCodeAnalyzer (utils.ts)                      *)
(***************************************************************************)
\* MEMORY_PATTERNS
\* heapAlloc: /std\.(ArrayList|StringHashMap|AutoHashMap)/g
ReHeapAlloc == <<One({"std.ArrayList"})>>
\* stackAlloc: /var\s+\w+\s*:\s*\[(\d+)\]/g
ReStackAlloc == <<One({"var"}), Spaced(Words), One({":"}), One({"[16]u8"})>>
\* slices: /\[\](?:u8|i32|f64)/g
ReSlices == <<One({"[]u8", "[]f64"})>>
\* TIME_COMPLEXITY_PATTERNS
\* loops: /(?:while|for)\s*\(/g
ReLoops == <<One(LoopLexemes), One({"("})>>
\* nestedLoops: /(?:while|for)[^{]*\{[^}]*(?:while|for)/g
ReNestedLoops ==
  <<One(LoopLexemes), Star(Not({"{"})), One({"{"}), Star(Not({"}"})),
    One(LoopLexemes)>>
\* recursion: /fn\s+\w+[^{]*\{[^}]*\w+\s*\([^)]*\)/g
ReRecursion ==
  <<One({"fn"}), Spaced(StartsWord), Star(Not({"{"})), One({"{"}),
    Star(Not({"}"})), One(EndsWord), One({"("}), Star(Not({")"})), One({")"})>>
\* ALLOCATION_PATTERNS
\* comptime: /comptime\s/g
ReComptime == <<One({"comptime"}), Space>>
\* arena: /std\.heap\.ArenaAllocator/g
ReArena == <<One({"std.heap.ArenaAllocator"})>>
\* fixedBuf: /std\.heap\.FixedBufferAllocator/g
ReFixedBuf == <<One({"std.heap.FixedBufferAllocator"})>>
\* the two patterns that only the server's own, unused analyzeAllocations has
\* gpa: /std\.heap\.GeneralPurposeAllocator/g
ReGpa == <<One({"std.heap.GeneralPurposeAllocator"})>>
\* pageAlloc: /std\.heap\.page_allocator/g
RePageAlloc == <<One({"std.heap.page_allocator"})>>

analyzeMemoryUsage(code) ==
  LET heapAllocs == MatchCount(ReHeapAlloc, code)
      stackAllocs == MatchCount(ReStackAlloc, code)
      sliceUsage == MatchCount(ReSlices, code)
  IN << <<"- Heap Allocations: ", ToString(heapAllocs), " detected">>,
        <<"- Stack Allocations: ", ToString(stackAllocs), " detected">>,
        <<"- Slice Usage: ", ToString(sliceUsage), " instances">>,
        <<"- Memory Profile: ",
          IF heapAllocs > stackAllocs THEN "Heap-heavy" ELSE "Stack-optimized">> >>

\* the label of analyzeTimeComplexity; "O(n^2)" is the source's O(n) squared
Quadratic == "O(n^2)"
ComplexityLabel(loops, nestedLoops, recursion) ==
  LET complexity == IF nestedLoops > 0 THEN Quadratic
                    ELSE IF loops > 0 THEN "O(n)"
                    ELSE "O(1)"
  IN IF recursion > 0 THEN complexity \o " with recursive calls" ELSE complexity

analyzeTimeComplexity(code) ==
  LET loops == MatchCount(ReLoops, code)
      nestedLoops == MatchCount(ReNestedLoops, code)
      recursion == MatchCount(ReRecursion, code)
  IN << <<"- Estimated Complexity: ", ComplexityLabel(loops, nestedLoops, recursion)>>,
        <<"- Loop Count: ", ToString(loops)>>,
        <<"- Nested Loops: ", ToString(nestedLoops)>>,
        <<"- Recursive Patterns: ", ToString(recursion), " detected">> >>

\* ZigCodeAnalyzer.determineAllocStrategy
determineAllocStrategy(arenaCount, fixedBufCount) ==
  IF arenaCount > 0 /\ fixedBufCount > 0 THEN "Mixed allocation strategy"
  ELSE IF arenaCount > 0 THEN "Arena-based allocation"
  ELSE IF fixedBufCount > 0 THEN "Fixed buffer allocation"
  ELSE "Default allocator usage"

analyzeAllocations(code) ==
  LET comptimeUsage == MatchCount(ReComptime, code)
      arenaAlloc == MatchCount(ReArena, code)
      fixedBufAlloc == MatchCount(ReFixedBuf, code)
  IN << <<"- Comptime Evaluations: ", ToString(comptimeUsage)>>,
        <<"- Arena Allocators: ", ToString(arenaAlloc)>>,
        <<"- Fixed Buffer Allocators: ", ToString(fixedBufAlloc)>>,
        <<"- Allocation Strategy: ", determineAllocStrategy(arenaAlloc, fixedBufAlloc)>> >>

estimateComputeUnits(code) ==
  Result(
    <<<<"# Compute Units Estimation">>,
      <<>>,
      <<"## Memory Usage:">>>>
    \o analyzeMemoryUsage(code)
    \o <<<<>>,
         <<"## Time Complexity:">>>>
    \o analyzeTimeComplexity(code)
    \o <<<<>>,
         <<"## Allocation Analysis:">>>>
    \o analyzeAllocations(code)
    \o <<<<>>,
         <<"## Recommendations:">>,
         <<"- Consider using arena allocators for batch allocations">>,
         <<"- Profile memory usage with --enable-logging">>,
         <<"- Use comptime evaluation to reduce runtime overhead">>,
         <<"- Consider memory pool allocation for frequent allocations">>>>)

\* the value that follows `label` on the line of a block that begins with it
FieldOf(lines, label) ==
  LET i == CHOOSE i \in DOMAIN lines : lines[i] # <<>> /\ lines[i][1] = label
  IN lines[i][2]

(***************************************************************************)
(* Sample code: statement lists of at most MaxNodes statements, a          *)
(* statement being a plain one or a block (loop, conditional, function)    *)
(* around a statement list.                                                *)
(***************************************************************************)
PlainStmts ==
  { <<"foo", "(", ")", ";">>,
    <<"comptime", "var", "buf", ":", "[16]u8", ";">>,
    <<"var", "list", "=", "std.ArrayList", ";">>,
    <<"std.heap.ArenaAllocator">>,
    <<"std.heap.FixedBufferAllocator">>,
    <<"std.heap.GeneralPurposeAllocator">>,
    <<"std.heap.page_allocator">> }
BlockHeads ==
  { <<"for", "(", "items", ")", "{">>,
    <<"while", "(", "x", ")", "{">>,
    <<"if", "(", "x", ")", "{">>,
    <<"fn", "bar", "(", ")", "void", "{">> }

RECURSIVE StmtLists(_)
RECURSIVE Stmts(_)
RECURSIVE Splits(_, _)
\* the statement lists of exactly n statements, nested ones counted: a
\* first statement of k statements, k or more, and a list of the other n - k
Splits(n, k) ==
  IF k > n THEN {}
  ELSE {t \o r : t \in Stmts(k), r \in StmtLists(n - k)} \cup Splits(n, k + 1)
StmtLists(n) == IF n = 0 THEN {<<>>} ELSE Splits(n, 1)
\* the statements that hold exactly n statements, themselves counted
Stmts(n) ==
  (IF n = 1 THEN PlainStmts ELSE {})
  \cup {h \o b \o <<"}">> : h \in BlockHeads, b \in StmtLists(n - 1)}
RECURSIVE StmtListsUpTo(_)
StmtListsUpTo(n) ==
  IF n = 0 THEN StmtLists(0) ELSE StmtLists(n) \cup StmtListsUpTo(n - 1)

CodeSamples == StmtListsUpTo(MaxNodes)

\* case 'estimate_compute_units' of the CallToolRequestSchema handler
HandleEstimateComputeUnits(args) ==
  IF ~validateStringParam(args.code)
  THEN [out |-> InvalidParams("code"), trace |-> <<"validateStringParam">>]
  ELSE [out |-> estimateComputeUnits(args.code.v),
        trace |-> <<"validateStringParam", "estimateComputeUnits">>]

\* the static pattern tables of ZigCodeAnalyzer, one object each for all calls
StaticPatterns ==
  [heapAlloc |-> ReHeapAlloc, stackAlloc |-> ReStackAlloc, slices |-> ReSlices,
   loops |-> ReLoops, nestedLoops |-> ReNestedLoops, recursion |-> ReRecursion,
   comptime |-> ReComptime, arena |-> ReArena, fixedBuf |-> ReFixedBuf]
RECURSIVE LastIndexWhereSearchEnded(_, _, _)
LastIndexWhereSearchEnded(pat, text, from) ==
  IF FirstMatch(pat, text, from)[1] = 0 THEN from - 1
  ELSE LastIndexWhereSearchEnded(pat, text,
                                 NextSearch(FirstMatch(pat, text, from)))
RECURSIVE LastIndexAfterMatch(_, _, _)
\* code.match(pattern) of a pattern with the g flag sets pattern.lastIndex
\* to 0 and searches on from the end of each match; the search that finds
\* nothing sets pattern.lastIndex to 0
LastIndexAfterMatch(pat, text, from) ==
  IF FirstMatch(pat, text, from)[1] = 0 THEN 0
  ELSE LastIndexAfterMatch(pat, text, NextSearch(FirstMatch(pat, text, from)))
\* what the three analyses of estimateComputeUnits leave in the tables
LastIndexAfterAnalyses(code) ==
  [p \in DOMAIN StaticPatterns |-> LastIndexAfterMatch(StaticPatterns[p], code, 1)]

CallEstimateComputeUnits ==
  /\ phase = "idle"
  /\ \E hasArgs \in BOOLEAN :
     \E code \in IF hasArgs THEN NonStrings \cup {Str(t) : t \in CodeSamples}
                 ELSE {Undefined} :
       LET args == [code |-> code]
           h == HandleEstimateComputeUnits(args)
       IN /\ call' = [name |-> "estimate_compute_units", hasArgs |-> hasArgs,
                      args |-> args]
          /\ outcome' = h.out
          /\ trace' = h.trace
          /\ lastIndex' = IF validateStringParam(code)
                          THEN LastIndexAfterAnalyses(code.v) ELSE lastIndex
  /\ phase' = "done"
  /\ UNCHANGED kept

(***************************************************************************)
(* analyze_build_zig: ZigBuildSystemHelper.analyzeBuildZig (zig-build.ts)  *)
(* A build file is a sequence of lines, each a string.                     *)
(***************************************************************************)
\* the strings analyzeBuildZig looks for
BuildNeedles ==
  {"Builder", "setTarget", "setBuildMode", "@import", "build.zig",
   ".{ .path = ", "b.path(", ".addModule(", "root_module.addImport(",
   "linkLibrary", "root_module.addImport", "standardTargetOptions",
   "standardOptimizeOption", "addTest", "installArtifact", "getEmittedDocs"}

\* a build file that mixes the old and the new build API, line by line
SampleBuildZig ==
  << "const std = @import(\"std\");",
     "const Builder = std.build.Builder;",
     "pub fn build(b: *std.Build) void {",
     "const target = b.standardTargetOptions(.{});",
     "const optimize = b.standardOptimizeOption(.{});",
     "exe.setTarget(target);",
     "exe.setBuildMode(mode);",
     "const deps = @import(\"deps/build.zig\");",
     ".root_source_file = .{ .path = \"src/main.zig\" },",
     ".root_source_file = b.path(\"src/main.zig\"),",
     "exe.addModule(\"args\", args_mod);",
     "exe.root_module.addImport(\"args\", args_dep.module(\"args\"));",
     "exe.linkLibrary(args_dep.artifact(\"args\"));",
     "const unit_tests = b.addTest(.{});",
     "b.installArtifact(exe);",
     ".source_dir = exe.getEmittedDocs()," >>

\* the needles each line of the sample holds
LineNeedles ==
  [i \in DOMAIN SampleBuildZig |->
     {n \in BuildNeedles : StrIncludes(SampleBuildZig[i], n)}]
LineOf(line) == CHOOSE i \in DOMAIN SampleBuildZig : SampleBuildZig[i] = line

\* buildZigContent.includes(needle): no needle holds a line break
ContentIncludes(content, needle) ==
  \E k \in DOMAIN content : needle \in LineNeedles[LineOf(content[k])]

FollowsModernPatterns == "Build file follows modern Zig patterns"

\* the if statements of analyzeBuildZig, in their order: the condition of
\* each and the recommendation it pushes
BuildChecks(c) ==
  << [on |-> ContentIncludes(c, "Builder"),
      rec |-> "Update to new Build API: replace Builder with std.Build"],
     [on |-> ContentIncludes(c, "setTarget"),
      rec |-> "Use standardTargetOptions() instead of setTarget()"],
     [on |-> ContentIncludes(c, "setBuildMode"),
      rec |-> "Use standardOptimizeOption() instead of setBuildMode()"],
     [on |-> ContentIncludes(c, "@import") /\ ContentIncludes(c, "build.zig"),
      rec |-> "Consider using b.dependency() for external dependencies instead of @import()"],
     [on |-> ContentIncludes(c, ".{ .path = ") /\ ~ContentIncludes(c, "b.path("),
      rec |-> "Modernize to Zig 0.14+: use b.path(\"file.zig\") instead of .{ .path = \"file.zig\" }"],
     [on |-> ContentIncludes(c, ".addModule(")
             /\ ~ContentIncludes(c, "root_module.addImport("),
      rec |-> "Modernize to Zig 0.14+: use exe.root_module.addImport() instead of exe.addModule()"],
     [on |-> ContentIncludes(c, "linkLibrary")
             /\ ~ContentIncludes(c, "root_module.addImport"),
      rec |-> "Consider using root_module.addImport() for modern module dependencies"],
     [on |-> ~ContentIncludes(c, "standardTargetOptions"),
      rec |-> "Add standardTargetOptions() for cross-compilation support"],
     [on |-> ~ContentIncludes(c, "standardOptimizeOption"),
      rec |-> "Add standardOptimizeOption() for build mode selection"],
     [on |-> ~ContentIncludes(c, "addTest"),
      rec |-> "Consider adding test step with addTest()"],
     [on |-> ~ContentIncludes(c, "installArtifact"),
      rec |-> "Use installArtifact() to install built executables/libraries"],
     [on |-> ~ContentIncludes(c, "getEmittedDocs"),
      rec |-> "Add documentation generation with getEmittedDocs() and addInstallDirectory()"] >>

RECURSIVE Pushed(_)
\* recommendations.push(...) of each check whose condition holds
Pushed(checks) ==
  IF checks = <<>> THEN <<>>
  ELSE (IF Head(checks).on THEN <<Head(checks).rec>> ELSE <<>>)
       \o Pushed(Tail(checks))

\* an analysis that approves a file as soon as it holds the four modern calls
analyzeBuildZigModernFirst(buildZigContent) ==
  IF \A n \in {"standardTargetOptions", "standardOptimizeOption", "addTest",
               "installArtifact"} : ContentIncludes(buildZigContent, n)
  THEN <<FollowsModernPatterns>>
  ELSE Pushed(BuildChecks(buildZigContent))
\* an analysis that closes every list with the approval
analyzeBuildZigAlwaysApproves(buildZigContent) ==
  Pushed(BuildChecks(buildZigContent)) \o <<FollowsModernPatterns>>
ZigBuildSystemHelper_analyzeBuildZig(buildZigContent) ==
  LET recommendations == Pushed(BuildChecks(buildZigContent))
  IN IF Len(recommendations) > 0 THEN recommendations
     ELSE <<FollowsModernPatterns>>

\* ZigServer.analyzeBuildZig: the report around the recommendations
analyzeBuildZig(buildZigContent) ==
  LET recommendations == ZigBuildSystemHelper_analyzeBuildZig(buildZigContent)
  IN Result(
       <<<<"# Build.zig Analysis Results">>,
         <<>>,
         <<"## Recommendations:">>>>
       \o Bullets(recommendations)
       \o <<<<>>,
            <<"## Modern Zig Build System Features to Consider:">>,
            <<>>,
            <<"### 1. Dependency Management (Zig 0.11+)">>,
            <<"- Use build.zig.zon for managing dependencies">>,
            <<"- Replace manual @import() with b.dependency()">>,
            <<>>,
            <<"### 2. Cross-compilation Support">>,
            <<"- Use standardTargetOptions() for flexible target selection">>,
            <<"- Support multiple architectures out of the box">>,
            <<>>,
            <<"### 3. Build Options">>,
            <<"- Add configurable build options with b.addOptions()">>,
            <<"- Support feature flags and conditional compilation">>,
            <<>>,
            <<"### 4. Testing Integration">>,
            <<"- Include comprehensive test steps">>,
            <<"- Support different test configurations">>,
            <<>>,
            <<"### 5. Documentation Generation">>,
            <<"- Add documentation generation steps">>,
            <<"- Include examples and usage guides">>,
            <<>>,
            <<"## Example Modernization:">>,
            <<>>,
            <<Fence, "zig">>,
            <<"// Old pattern (deprecated)">>,
            <<"exe.setTarget(target);">>,
            <<"exe.setBuildMode(mode);">>,
            <<>>,
            <<"// New pattern (modern)">>,
            <<"const exe = b.addExecutable(.{">>,
            <<"    .name = \"my-app\",">>,
            <<"    .root_source_file = .{ .path = \"src/main.zig\" },">>,
            <<"    .target = target,">>,
            <<"    .optimize = optimize,">>,
            <<"});">>,
            <<Fence>>>>)

\* the recommendations a report lists
Recommendations(out) ==
  LET bullets == Section(out.text, <<"## Recommendations:">>)
  IN [i \in DOMAIN bullets |-> bullets[i][2]]

BuildFiles == SubSeqsUpTo(SampleBuildZig, MaxBuildLines)

\* case 'analyze_build_zig' of the CallToolRequestSchema handler
HandleAnalyzeBuildZig(args) ==
  IF ~validateStringParam(args.buildZigContent)
  THEN [out |-> InvalidParams("buildZigContent"), trace |-> <<"validateStringParam">>]
  ELSE [out |-> analyzeBuildZig(args.buildZigContent.v),
        trace |-> <<"validateStringParam", "analyzeBuildZig">>]

CallAnalyzeBuildZig ==
  /\ phase = "idle"
  /\ \E hasArgs \in BOOLEAN :
     \E content \in IF hasArgs THEN NonStrings \cup {Str(t) : t \in BuildFiles}
                    ELSE {Undefined} :
       LET args == [buildZigContent |-> content]
           h == HandleAnalyzeBuildZig(args)
       IN /\ call' = [name |-> "analyze_build_zig", hasArgs |-> hasArgs,
                      args |-> args]
          /\ outcome' = h.out
          /\ trace' = h.trace
  /\ phase' = "done"
  /\ UNCHANGED <<kept, lastIndex>>

(***************************************************************************)
(* generate_build_zig: ZigBuildSystemHelper.generateBuildZig and the       *)
(* report ZigServer.generateBuildZig puts around it.  A line is one string;*)
(* a backquote of the source is written as a quote.                        *)
(***************************************************************************)
Arr(items) == [t |-> "array", v |-> items]
IsArray(x) == x.t = "array"
\* value || fallback, for a value that is absent or a string
OrElse(value, fallback) ==
  IF value.t = "undefined" \/ (value.t = "string" /\ value.v = "") THEN fallback
  ELSE value.v

\* the block of one entry of Object.entries(dependencies)
DependencyBlock(name) ==
  << <<"    const " \o name \o "_dep = b.dependency(\"" \o name \o "\", .{">>,
     <<"        .target = target,">>,
     <<"        .optimize = optimize,">>,
     <<"    });">>,
     <<"    exe.root_module.addImport(\"" \o name \o "\", " \o name
       \o "_dep.module(\"" \o name \o "\"));">> >>

\* blocks.join('\n') inside a template: no block leaves an empty line
JoinBlocks(blocks) == IF blocks = <<>> THEN <<<<>>>> ELSE Flatten(blocks)

\* config.zigVersion and config.dependencies, the entries in key order
ZigBuildSystemHelper_generateBuildZig(config) ==
  LET zigVersion == IF config.zigVersion.t = "undefined" THEN "0.14.0"
                    ELSE config.zigVersion.v
      dependencies == config.dependencies
  IN <<<<"//! Build script for Zig project">>>>
     \o <<<<"//! Zig version: " \o zigVersion \o "+">>>>
     \o <<<<"//! Modern build system with enhanced module support">>,
         <<>>,
         <<"const std = @import(\"std\");">>,
         <<>>,
         <<"pub fn build(b: *std.Build) void {">>,
         <<"    // Standard target options allow the person running 'zig build' to choose">>,
         <<"    // what target to build for. Here we do not override the defaults, which">>,
         <<"    // means any target is allowed, and the default is native.">>,
         <<"    const target = b.standardTargetOptions(.{});">>,
         <<>>,
         <<"    // Standard optimization options allow the person running 'zig build' to select">>,
         <<"    // between Debug, ReleaseSafe, ReleaseFast, and ReleaseSmall.">>,
         <<"    const optimize = b.standardOptimizeOption(.{});">>,
         <<>>,
         <<"    // Create the main executable">>,
         <<"    const exe = b.addExecutable(.{">>,
         <<"        .name = \"main\",">>,
         <<"        .root_source_file = b.path(\"src/main.zig\"),">>,
         <<"        .target = target,">>,
         <<"        .optimize = optimize,">>,
         <<"    });">>,
         <<>>,
         <<"    // Add dependencies using modern module system">>>>
     \o JoinBlocks([i \in DOMAIN dependencies |-> DependencyBlock(dependencies[i].name)])
     \o <<<<>>,
         <<"    // Install the executable">>,
         <<"    b.installArtifact(exe);">>,
         <<>>,
         <<"    // Create a run step">>,
         <<"    const run_cmd = b.addRunArtifact(exe);">>,
         <<"    run_cmd.step.dependOn(b.getInstallStep());">>,
         <<>>,
         <<"    // Forward arguments to the run step">>,
         <<"    if (b.args) |args| {">>,
         <<"        run_cmd.addArgs(args);">>,
         <<"    }">>,
         <<>>,
         <<"    const run_step = b.step(\"run\", \"Run the application\");">>,
         <<"    run_step.dependOn(&run_cmd.step);">>,
         <<>>,
         <<"    // Create test step">>,
         <<"    const unit_tests = b.addTest(.{">>,
         <<"        .root_source_file = b.path(\"src/main.zig\"),">>,
         <<"        .target = target,">>,
         <<"        .optimize = optimize,">>,
         <<"    });">>,
         <<>>,
         <<"    const run_unit_tests = b.addRunArtifact(unit_tests);">>,
         <<"    const test_step = b.step(\"test\", \"Run unit tests\");">>,
         <<"    test_step.dependOn(&run_unit_tests.step);">>,
         <<>>,
         <<"    // Add documentation generation step">>,
         <<"    const docs_step = b.step(\"docs\", \"Generate documentation\");">>,
         <<"    const docs_install = b.addInstallDirectory(.{">>,
         <<"        .source_dir = exe.getEmittedDocs(),">>,
         <<"        .install_dir = .prefix,">>,
         <<"        .install_subdir = \"docs\",">>,
         <<"    });">>,
         <<"    docs_step.dependOn(&docs_install.step);">>,
         <<"}">>>>

\* config.dependencies[dep] = ...: a key that is there keeps its place
SetKey(obj, key, value) ==
  IF \E i \in DOMAIN obj : obj[i].name = key
  THEN [i \in DOMAIN obj |->
          IF obj[i].name = key THEN [name |-> key, path |-> value] ELSE obj[i]]
  ELSE Append(obj, [name |-> key, path |-> value])
RECURSIVE AddDependencies(_, _)
\* for (const dep of args.dependencies) config.dependencies[dep] = ...
AddDependencies(obj, deps) ==
  IF deps = <<>> THEN obj
  ELSE AddDependencies(
         SetKey(obj, Head(deps), "dependency(\"" \o Head(deps) \o "\")"),
         Tail(deps))

\* ZigServer.generateBuildZig.  buildMode (args.optimizationLevel) and
\* buildSteps are set in the config and read by nothing.
generateBuildZig(args) ==
  LET config ==
        [zigVersion |-> Str(OrElse(args.zigVersion, "0.12.0")),
         dependencies |->
           IF IsArray(args.dependencies)
           THEN AddDependencies(<<>>, args.dependencies.v) ELSE <<>>]
      buildZigContent == ZigBuildSystemHelper_generateBuildZig(config)
  IN Result(
       <<<<"# Generated build.zig">>,
           <<>>,
           <<Fence, "zig">>>>
       \o buildZigContent
       \o <<<<Fence>>,
           <<>>,
           <<"## Usage Instructions:">>,
           <<>>,
           <<"1. **Build the project:**">>,
           <<"   ", Fence, "bash">>,
           <<"   zig build">>,
           <<"   ", Fence>>,
           <<>>,
           <<"2. **Run the application:**">>,
           <<"   ", Fence, "bash">>,
           <<"   zig build run">>,
           <<"   ", Fence>>,
           <<>>,
           <<"3. **Run tests:**">>,
           <<"   ", Fence, "bash">>,
           <<"   zig build test">>,
           <<"   ", Fence>>,
           <<>>,
           <<"4. **Build for different targets:**">>,
           <<"   ", Fence, "bash">>,
           <<"   zig build -Dtarget=x86_64-windows-gnu">>,
           <<"   zig build -Dtarget=aarch64-linux-gnu">>,
           <<"   ", Fence>>,
           <<>>,
           <<"5. **Different optimization modes:**">>,
           <<"   ", Fence, "bash">>,
           <<"   zig build -Doptimize=Debug">>,
           <<"   zig build -Doptimize=ReleaseFast">>,
           <<"   ", Fence>>,
           <<>>,
           <<"## Next Steps:">>,
           <<"- Customize the build script for your specific needs">>,
           <<"- Add additional build steps or dependencies as required">>,
           <<"- Consider using build.zig.zon for dependency management">>>>)

(***************************************************************************)
(* generate_build_zon                                                      *)
(***************************************************************************)
\* a block that always writes the example URL
ZonBlockExampleUrl(dep) ==
  << <<"        ." \o dep.name \o " = .{">>,
     <<"            .url = \"https://github.com/example/" \o dep.name \o "\",">>,
     <<"            .hash = \"1220000000000000000000000000000000000000000000000000000000000000\",">>,
     <<"        },">> >>
\* the block of one dependency: dep.url || the example URL of its name
ZonBlock(dep) ==
  << <<"        ." \o dep.name \o " = .{">>,
     <<"            .url = \""
       \o OrElse(dep.url, "https://github.com/example/" \o dep.name) \o "\",">>,
     <<"            .hash = \"1220000000000000000000000000000000000000000000000000000000000000\",">>,
     <<"        },">> >>

ZigBuildSystemHelper_generateBuildZon(dependencies) ==
  <<<<".{">>,
    <<"    .name = \"my-project\",">>,
    <<"    .version = \"0.1.0\",">>,
    <<"    .minimum_zig_version = \"0.14.0\",">>,
    <<"    ">>,
    <<"    .dependencies = .{">>>>
  \o JoinBlocks([i \in DOMAIN dependencies |-> ZonBlock(dependencies[i])])
  \o <<<<"    },">>,
    <<"    ">>,
    <<"    .paths = .{">>,
    <<"        \"build.zig\",">>,
    <<"        \"build.zig.zon\",">>,
    <<"        \"src\",">>,
    <<"        // \"examples\",">>,
    <<"        // \"test\",">>,
    <<"        // \"README.md\",">>,
    <<"        // \"LICENSE\",">>,
    <<"    },">>,
    <<"}">>>>

\* ZigBuildSystemHelper.getExampleDependencies, in key order
getExampleDependencies ==
  << [key |-> "zig-args", name |-> "args",
      url |-> "https://github.com/MasterQ32/zig-args"],
     [key |-> "zig-json", name |-> "json",
      url |-> "https://github.com/getty-zig/json"],
     [key |-> "zig-network", name |-> "network",
      url |-> "https://github.com/MasterQ32/zig-network"],
     [key |-> "zigimg", name |-> "zigimg",
      url |-> "https://github.com/zigimg/zigimg"] >>

\* ZigServer.generateBuildZon.  args.projectName is read into a name that
\* nothing uses.
generateBuildZon(args) ==
  LET dependencies == IF IsArray(args.dependencies) THEN args.dependencies.v
                      ELSE <<>>
      buildZonContent == ZigBuildSystemHelper_generateBuildZon(dependencies)
  IN Result(
       <<<<"# Generated build.zig.zon">>,
           <<>>,
           <<Fence, "zig">>>>
       \o buildZonContent
       \o <<<<Fence>>,
           <<>>,
           <<"## Dependency Management Instructions:">>,
           <<>>,
           <<"1. **Add a new dependency:**">>,
           <<"   - Add the dependency to the .dependencies section">>,
           <<"   - Run 'zig build --fetch' to download and validate">>,
           <<>>,
           <<"2. **Update dependency hashes:**">>,
           <<"   - Zig will provide the correct hash when a mismatch is detected">>,
           <<"   - Copy the hash from the error message to build.zig.zon">>,
           <<>>,
           <<"3. **Use dependencies in build.zig:**">>,
           <<"   ", Fence, "zig">>,
           <<"   const my_dep = b.dependency(\"my_dep\", .{">>,
           <<"       .target = target,">>,
           <<"       .optimize = optimize,">>,
           <<"   });">>,
           <<"   exe.linkLibrary(my_dep.artifact(\"my_dep\"));">>,
           <<"   ", Fence>>,
           <<>>,
           <<"## Popular Zig Dependencies:">>>>
       \o [i \in DOMAIN getExampleDependencies |->
             <<"- **" \o getExampleDependencies[i].name \o "**: "
               \o getExampleDependencies[i].url>>]
       \o <<<<>>,
           <<"## Best Practices:">>,
           <<"- Keep dependencies minimal and well-maintained">>,
           <<"- Pin to specific versions or commits for reproducible builds">>,
           <<"- Regularly update dependencies for security fixes">>,
           <<"- Document why each dependency is needed">>>>)

DepNames == {"args", "json"}
DepUrls == {Undefined, Str(""), Str("https://x/y")}
\* the sequences over S of at most n elements
RECURSIVE SeqsUpTo(_, _)
SeqsUpTo(S, n) ==
  IF n = 0 THEN {<<>>}
  ELSE LET shorter == SeqsUpTo(S, n - 1)
       IN shorter \cup {Append(q, x) : q \in shorter, x \in S}

\* args || {}
OrEmptyObject(hasArgs, args) ==
  IF hasArgs THEN args ELSE [f \in DOMAIN args |-> Undefined]

\* case 'generate_build_zig' of the CallToolRequestSchema handler
HandleGenerateBuildZig(hasArgs, args) ==
  [out |-> generateBuildZig(OrEmptyObject(hasArgs, args)),
   trace |-> <<"generateBuildZig">>]

CallGenerateBuildZig ==
  /\ phase = "idle"
  /\ \E hasArgs \in BOOLEAN :
     \E zigVersion \in IF hasArgs THEN {Undefined, Str(""), Str("0.13.0")}
                       ELSE {Undefined} :
     \E dependencies \in
          IF hasArgs
          THEN {Undefined, Str("args")} \cup {Arr(d) : d \in SeqsUpTo(DepNames, MaxDeps)}
          ELSE {Undefined} :
       LET args == [zigVersion |-> zigVersion, dependencies |-> dependencies]
           h == HandleGenerateBuildZig(hasArgs, args)
       IN /\ call' = [name |-> "generate_build_zig", hasArgs |-> hasArgs,
                      args |-> args]
          /\ outcome' = h.out
          /\ trace' = h.trace
  /\ phase' = "done"
  /\ UNCHANGED <<kept, lastIndex>>

\* case 'generate_build_zon' of the CallToolRequestSchema handler
HandleGenerateBuildZon(hasArgs, args) ==
  [out |-> generateBuildZon(OrEmptyObject(hasArgs, args)),
   trace |-> <<"generateBuildZon">>]

CallGenerateBuildZon ==
  /\ phase = "idle"
  /\ \E hasArgs \in BOOLEAN :
     \E dependencies \in
          IF hasArgs
          THEN {Undefined, Str("args")}
               \cup {Arr(d) : d \in SeqsUpTo([name : DepNames, url : DepUrls], MaxDeps)}
          ELSE {Undefined} :
       LET args == [dependencies |-> dependencies]
           h == HandleGenerateBuildZon(hasArgs, args)
       IN /\ call' = [name |-> "generate_build_zon", hasArgs |-> hasArgs,
                      args |-> args]
          /\ outcome' = h.out
          /\ trace' = h.trace
  /\ phase' = "done"
  /\ UNCHANGED <<kept, lastIndex>>

(***************************************************************************)
(* generate_code: ZigCodeGenerator.parseRequirements reads the keywords of *)
(* the prompt and the context, ZigCodeGenerator.generateZigCode fills one  *)
(* of four templates, ZigServer.generateCode puts the report around it.    *)
(***************************************************************************)
\* Boolean(x)
Truthy(x) ==
  ~(\/ x.t \in {"undefined", "null"}
    \/ (x.t = "string" /\ x.v = "")
    \/ (x.t = "number" /\ x.v = "0"))
Shown(x) == IF x.t = "string" THEN x.v ELSE x.t

UpperCaseLetters == "ABCDEFGHIJKLMNOPQRSTUVWXYZ"
LowerCaseLetters == "abcdefghijklmnopqrstuvwxyz"
\* the lower-case form of one character
LowerChar(c) ==
  IF \E i \in 1..26 : SubSeq(UpperCaseLetters, i, i) = c
  THEN LET i == CHOOSE i \in 1..26 : SubSeq(UpperCaseLetters, i, i) = c
       IN SubSeq(LowerCaseLetters, i, i)
  ELSE c
RECURSIVE ToLowerCase(_)
\* String.prototype.toLowerCase
ToLowerCase(str) ==
  IF str = "" THEN ""
  ELSE LowerChar(SubSeq(str, 1, 1)) \o ToLowerCase(SubSeq(str, 2, Len(str)))

RECURSIVE JoinWith(_, _)
\* Array.prototype.join of strings
JoinWith(parts, sep) ==
  IF parts = <<>> THEN ""
  ELSE IF Len(parts) = 1 THEN parts[1]
  ELSE parts[1] \o sep \o JoinWith(Tail(parts), sep)

keywords ==
  [features |-> <<"create", "implement", "build", "function", "struct", "type",
                  "enum", "union">>,
   errorHandling |-> <<"error", "handle", "catch", "try", "fail">>,
   testing |-> <<"test", "verify", "check", "validate">>,
   performance |-> <<"fast", "optimize", "performance", "efficient", "speed">>]

\* the context in place of the prompt when there is one
fullTextOfOne(prompt, context) ==
  ToLowerCase(IF Truthy(context) THEN context.v
              ELSE IF Truthy(prompt) THEN prompt.v ELSE "")
\* the joined text as it was written
fullTextAsWritten(prompt, context) ==
  JoinWith(
    (IF Truthy(prompt) THEN <<prompt.v>> ELSE <<>>)
    \o (IF Truthy(context) THEN <<context.v>> ELSE <<>>), " ")
\* [prompt, context].filter(Boolean).join(' ').toLowerCase()
fullText(prompt, context) ==
  ToLowerCase(JoinWith(
    (IF Truthy(prompt) THEN <<prompt.v>> ELSE <<>>)
    \o (IF Truthy(context) THEN <<context.v>> ELSE <<>>), " "))

\* words.some(word => fullText.includes(word))
SomeWord(words, text) == \E i \in DOMAIN words : StrIncludes(text, words[i])

parseRequirements(prompt, context) ==
  LET text == fullText(prompt, context)
  IN [features |->
        IF SomeWord(keywords.features, text)
        THEN {keywords.features[i] : i \in
                {j \in DOMAIN keywords.features : StrIncludes(text, keywords.features[j])}}
        ELSE {},
      errorHandling |-> SomeWord(keywords.errorHandling, text),
      testing |-> SomeWord(keywords.testing, text),
      performance |-> SomeWord(keywords.performance, text)]

generateStruct(requirements) ==
  LET errorReturn == IF requirements.errorHandling THEN "Error!" ELSE ""
  IN <<<<"pub const MyStruct = struct {">>,
     <<"    data: []const u8,">>,
     <<"    allocator: std.mem.Allocator,">>,
     <<"    capacity: usize,">>,
     <<>>,
     <<"    const Self = @This();">>,
     <<>>,
     <<"    /// Initialize a new instance">>,
     <<"    pub fn init(allocator: std.mem.Allocator) ", errorReturn, "Self {">>,
     <<"        return Self{">>,
     <<"            .data = &[_]u8{},">>,
     <<"            .allocator = allocator,">>,
     <<"            .capacity = 0,">>,
     <<"        };">>,
     <<"    }">>,
     <<>>,
     <<"    /// Clean up resources">>,
     <<"    pub fn deinit(self: *Self) void {">>,
     <<"        if (self.data.len > 0) {">>,
     <<"            self.allocator.free(self.data);">>,
     <<"        }">>,
     <<"    }">>,
     <<>>,
     <<"    /// Process data">>,
     <<"    pub fn process(self: *Self, input: []const u8) ", errorReturn, "void {">>,
     <<"        ", (IF requirements.errorHandling THEN "if (input.len == 0) return Error.InvalidInput;" ELSE "")>>,
     <<"        // Implementation here">>,
     <<"        _ = self;">>,
     <<"    }">>,
     <<"};">>>>

generateEnum(requirements) ==
    <<<<"pub const MyEnum = enum {">>,
    <<"    variant_a,">>,
    <<"    variant_b,">>,
    <<"    variant_c,">>,
    <<>>,
    <<"    const Self = @This();">>,
    <<>>,
    <<"    /// Convert to string representation">>,
    <<"    pub fn toString(self: Self) []const u8 {">>,
    <<"        return switch (self) {">>,
    <<"            .variant_a => \"Variant A\",">>,
    <<"            .variant_b => \"Variant B\", ">>,
    <<"            .variant_c => \"Variant C\",">>,
    <<"        };">>,
    <<"    }">>,
    <<>>,
    <<"    /// Parse from string">>,
    <<"    pub fn fromString(str: []const u8) ", (IF requirements.errorHandling THEN "Error!" ELSE "?"), "Self {">>,
    <<"        if (std.mem.eql(u8, str, \"variant_a\")) return .variant_a;">>,
    <<"        if (std.mem.eql(u8, str, \"variant_b\")) return .variant_b;">>,
    <<"        if (std.mem.eql(u8, str, \"variant_c\")) return .variant_c;">>,
    <<"        return ", (IF requirements.errorHandling THEN "Error.InvalidInput" ELSE "null"), ";">>,
    <<"    }">>,
    <<"};">>>>

generateUnion(requirements) ==
    <<<<"pub const MyUnion = union(enum) {">>,
    <<"    integer: i32,">>,
    <<"    float: f64,">>,
    <<"    string: []const u8,">>,
    <<>>,
    <<"    const Self = @This();">>,
    <<>>,
    <<"    /// Get type tag as string">>,
    <<"    pub fn getTypeName(self: Self) []const u8 {">>,
    <<"        return switch (self) {">>,
    <<"            .integer => \"integer\",">>,
    <<"            .float => \"float\",">>,
    <<"            .string => \"string\",">>,
    <<"        };">>,
    <<"    }">>,
    <<>>,
    <<"    /// Format for printing">>,
    <<"    pub fn format(">>,
    <<"        self: Self,">>,
    <<"        comptime fmt: []const u8,">>,
    <<"        options: std.fmt.FormatOptions,">>,
    <<"        writer: anytype,">>,
    <<"    ) !void {">>,
    <<"        _ = fmt;">>,
    <<"        _ = options;">>,
    <<"        ">>,
    <<"        switch (self) {">>,
    <<"            .integer => |val| try writer.print(\"{d}\", .{val}),">>,
    <<"            .float => |val| try writer.print(\"{d}\", .{val}),">>,
    <<"            .string => |val| try writer.print(\"{s}\", .{val}),">>,
    <<"        }">>,
    <<"    }">>,
    <<"};">>>>

generateFunction(requirements) ==
  LET fnHeader == IF requirements.errorHandling
                  THEN "pub fn process(input: []const u8) Error!void"
                  ELSE "pub fn process(input: []const u8) void"
  IN <<<<fnHeader, " {">>,
     <<"    ", (IF requirements.errorHandling THEN "if (input.len == 0) return Error.InvalidInput;" ELSE "")>>,
     <<"    ">>,
     <<"    // Process the input">>,
     <<"    for (input, 0..) |byte, i| {">>,
     <<"        // Example processing logic">>,
     <<"        _ = byte;">>,
     <<"        _ = i;">>,
     <<"    }">>,
     <<"    ">>>>
     \o (IF requirements.performance
         THEN <<<<"    ", "// Optimized for performance">>,
                <<"    // Consider using SIMD operations for large datasets">>>>
         ELSE <<<<"    ", "">>>>)
     \o <<<<"}">>>>

\* the test block without its second test
generateTestsOneBlock(requirements) ==
    <<<<"test \"basic functionality\" {">>,
    <<"    ", (IF requirements.errorHandling THEN "try testing.expectError(Error.InvalidInput, process(\"\"));" ELSE "")>>,
    <<"    ">>,
    <<"    // Test normal operation">>,
    <<"    try process(\"test input\");">>,
    <<"    ">>,
    <<"    // Add more comprehensive test cases">>,
    <<"    try testing.expect(true); // Placeholder assertion">>,
    <<"}">>>>

\* the test block with the error expectation whatever was asked
generateTestsExpectError(requirements) ==
    <<<<"test \"basic functionality\" {">>,
    <<"    ", "try testing.expectError(Error.InvalidInput, process(\"\"));">>,
    <<"    ">>,
    <<"    // Test normal operation">>,
    <<"    try process(\"test input\");">>,
    <<"    ">>,
    <<"    // Add more comprehensive test cases">>,
    <<"    try testing.expect(true); // Placeholder assertion">>,
    <<"}">>,
    <<>>,
    <<"test \"edge cases\" {">>,
    <<"    // Test edge cases">>,
    <<"    try process(\"\");">>,
    <<"    try testing.expect(true); // Placeholder assertion">>,
    <<"}">>>>

generateTests(requirements) ==
    <<<<"test \"basic functionality\" {">>,
    <<"    ", (IF requirements.errorHandling THEN "try testing.expectError(Error.InvalidInput, process(\"\"));" ELSE "")>>,
    <<"    ">>,
    <<"    // Test normal operation">>,
    <<"    try process(\"test input\");">>,
    <<"    ">>,
    <<"    // Add more comprehensive test cases">>,
    <<"    try testing.expect(true); // Placeholder assertion">>,
    <<"}">>,
    <<>>,
    <<"test \"edge cases\" {">>,
    <<"    // Test edge cases">>,
    <<"    try process(\"\");">>,
    <<"    try testing.expect(true); // Placeholder assertion">>,
    <<"}">>>>

\* the main functionality with a default that writes nothing
MainFunctionalityNoDefault(requirements) ==
  LET hasFeature(feature) == feature \in requirements.features
  IN IF hasFeature("struct") THEN generateStruct(requirements)
     ELSE IF hasFeature("enum") THEN generateEnum(requirements)
     ELSE IF hasFeature("union") THEN generateUnion(requirements)
     ELSE IF hasFeature("function") \/ hasFeature("implement")
     THEN generateFunction(requirements)
     ELSE <<>>
\* "Generate main functionality" of generateZigCode
MainFunctionality(requirements) ==
  LET hasFeature(feature) == feature \in requirements.features
  IN IF hasFeature("struct") THEN generateStruct(requirements)
     ELSE IF hasFeature("enum") THEN generateEnum(requirements)
     ELSE IF hasFeature("union") THEN generateUnion(requirements)
     ELSE IF hasFeature("function") \/ hasFeature("implement")
     THEN generateFunction(requirements)
     ELSE generateFunction(requirements)

generateZigCode(requirements) ==
  <<<<"//! Generated Zig code">>,
    <<>>,
    <<"const std = @import(\"std\");">>>>
     \o (IF requirements.testing THEN <<<<"const testing = std.testing;">>>> ELSE <<>>)
     \o <<<<>>>>
     \o (IF requirements.errorHandling
         THEN <<<<"const Error = error{">>,
                <<"    InvalidInput,">>,
                <<"    OutOfMemory,">>,
                <<"    InvalidOperation,">>,
                <<"};">>,
                <<>>>>
         ELSE <<>>)
     \o MainFunctionality(requirements)
     \o (IF requirements.testing
         THEN <<<<>>>> \o generateTests(requirements)
         ELSE <<>>)

\* a report that says whether an answer was written down before it
generateCodeStamped(prompt, context) ==
  Result(
    <<<<"# Generated Zig Code">>,
      <<>>>>
    \o generateZigCode(parseRequirements(prompt, context))
    \o <<<<>>,
         <<"## Generation Notes:">>,
         <<"- Generated ", IF kept = NothingKept THEN "first" ELSE "again">>>>)

generateCode(prompt, context) ==
  Result(
    <<<<"# Generated Zig Code">>,
      <<>>>>
    \o generateZigCode(parseRequirements(prompt, context))
    \o <<<<>>,
      <<"## Generation Notes:">>,
      <<"- Code follows modern Zig patterns and style guide">>,
      <<"- Includes comprehensive error handling where appropriate">>,
      <<"- Uses comptime optimizations when beneficial">>,
      <<"- Includes basic tests and documentation">>,
      <<"- Follows zero-cost abstraction principles">>,
      <<>>,
      <<"## Next Steps:">>,
      <<"1. Review and customize the generated code for your specific needs">>,
      <<"2. Add comprehensive tests">>,
      <<"3. Consider performance implications for your use case">>,
      <<"4. Add proper documentation comments">>>>)

\* words of the prompts: the template features, keywords of the three
\* flags, a keyword in upper case and inside a longer word, a negation
Vocabulary ==
  <<"no", "struct", "ENUM", "union", "function", "implement", "test", "error",
    "try", "fastest">>
RECURSIVE WordSeqs(_)
\* the sequences of at most n words
WordSeqs(n) ==
  IF n = 0 THEN {<<>>}
  ELSE WordSeqs(n - 1)
       \cup {<<Vocabulary[i]>> \o r : i \in DOMAIN Vocabulary,
                                      r \in {q \in WordSeqs(n - 1) : Len(q) = n - 1}}
Prompts == {JoinWith(ws, " ") : ws \in WordSeqs(MaxPromptWords)}
\* values of the optional context, which the handler passes on unchecked
Contexts ==
  {Undefined, Str(""), Str("Handle errors FAST"), Str("union"), Arr1("test")}

\* case 'generate_code' of the CallToolRequestSchema handler
HandleGenerateCode(args) ==
  IF ~validateStringParam(args.prompt)
  THEN [out |-> InvalidParams("prompt"), trace |-> <<"validateStringParam">>]
  ELSE [out |-> generateCode(args.prompt, args.context),
        trace |-> <<"validateStringParam", "generateCode">>]

CallGenerateCode ==
  /\ phase = "idle"
  /\ \E hasArgs \in BOOLEAN :
     \E prompt \in IF hasArgs THEN NonStrings \cup {Str(t) : t \in Prompts}
                   ELSE {Undefined} :
     \E context \in IF hasArgs THEN Contexts ELSE {Undefined} :
       LET args == [prompt |-> prompt, context |-> context]
           h == HandleGenerateCode(args)
       IN /\ call' = [name |-> "generate_code", hasArgs |-> hasArgs, args |-> args]
          /\ outcome' = h.out
          /\ trace' = h.trace
  /\ phase' = "done"
  /\ UNCHANGED <<kept, lastIndex>>

(***************************************************************************)
(* ZigStyleChecker: the report of a classifier (utils.ts).  A symbol that  *)
(* is no ASCII character is written by its code points: U+2705 is the      *)
(* white check mark, U+26A0U+FE0F the warning sign with its variation      *)
(* selector.                                                               *)
(***************************************************************************)
emojiMap ==
  [issues |-> "U+1F6A8",
   warnings |-> "U+26A0U+FE0F",
   concerns |-> "U+26A0U+FE0F",
   gaps |-> "U+274C",
   deprecations |-> "U+26A0U+FE0F",
   recommendations |-> "U+1F4A1",
   suggestions |-> "U+1F4A1",
   upgrades |-> "U+2B06U+FE0F",
   opportunities |-> "U+1F3AF",
   patterns |-> "U+2705",
   strengths |-> "U+2705",
   insights |-> "U+1F4CA",
   advanced |-> "U+1F680",
   modern |-> "U+2728",
   metrics |-> "U+1F4C8"]

\* emojiMap[sectionName] || the clipboard
getSectionEmoji(sectionName) ==
  IF sectionName \in DOMAIN emojiMap THEN emojiMap[sectionName] ELSE "U+1F4CB"

\* the upper-case form of one character
UpperChar(c) ==
  IF \E i \in 1..26 : SubSeq(LowerCaseLetters, i, i) = c
  THEN LET i == CHOOSE i \in 1..26 : SubSeq(LowerCaseLetters, i, i) = c
       IN SubSeq(UpperCaseLetters, i, i)
  ELSE c
\* str.charAt(0).toUpperCase() + str.slice(1)
capitalizeFirst(str) ==
  IF str = "" THEN "" ELSE UpperChar(SubSeq(str, 1, 1)) \o SubSeq(str, 2, Len(str))

\* the characters String.prototype.trim takes away, as far as a report
\* can hold them
WhiteSpace == {" ", "\t", "\n", "\r"}
RECURSIVE TrimStart(_)
TrimStart(str) ==
  IF Len(str) > 0 /\ SubSeq(str, 1, 1) \in WhiteSpace
  THEN TrimStart(SubSeq(str, 2, Len(str)))
  ELSE str
RECURSIVE TrimEnd(_)
TrimEnd(str) ==
  IF Len(str) > 0 /\ SubSeq(str, Len(str), Len(str)) \in WhiteSpace
  THEN TrimEnd(SubSeq(str, 1, Len(str) - 1))
  ELSE str
\* String.prototype.trim
Trim(str) == TrimEnd(TrimStart(str))

RECURSIVE SectionLinesWithEmpty(_)
\* the loop without its test of items.length
SectionLinesWithEmpty(sections) ==
  IF sections = <<>> THEN <<>>
  ELSE LET sectionName == Head(sections).name
           items == Head(sections).items
           emoji == getSectionEmoji(sectionName)
       IN <<emoji \o " **" \o capitalizeFirst(sectionName) \o ":**">>
          \o items \o <<"">> \o SectionLinesWithEmpty(Tail(sections))

RECURSIVE SectionLines(_)
\* for (const [sectionName, items] of Object.entries(sections)): what the
\* loop pushes to results; sections lists the entries in the order of
\* Object.entries, the order in which the object literal names them
SectionLines(sections) ==
  IF sections = <<>> THEN <<>>
  ELSE LET sectionName == Head(sections).name
           items == Head(sections).items
           emoji == getSectionEmoji(sectionName)
       IN (IF Len(items) > 0
           THEN <<emoji \o " **" \o capitalizeFirst(sectionName) \o ":**">>
                \o items \o <<"">>
           ELSE <<>>)
          \o SectionLines(Tail(sections))

\* formatAnalysisResults(title, sections): title is never read
formatAnalysisResults(title, sections) ==
  LET results == SectionLines(sections)
  IN IF Len(results) > 0 THEN Trim(JoinWith(results, "\n")) ELSE ""

(***************************************************************************)
(* Regular expressions over the characters of a text, as the classifiers   *)
(* of ZigStyleChecker use them (utils.ts).  A pattern is a sequence of     *)
(* nodes; Exec follows the backtracking order of the runtime: a repetition *)
(* takes as much as it can first, an alternation tries its branches from   *)
(* left to right.                                                          *)
(***************************************************************************)
TextOf(code) ==
  [s |-> code, c |-> [i \in 1..Len(code) |-> SubSeq(code, i, i)], n |-> Len(code)]

CharsIn(str) == {SubSeq(str, i, i) : i \in 1..Len(str)}
Lower == CharsIn(LowerCaseLetters)
Upper == CharsIn(UpperCaseLetters)
Digit == CharsIn("0123456789")
\* \w, \s
Word == Lower \cup Upper \cup Digit \cup {"_"}
Blank == WhiteSpace

Lit(str) == [k |-> "lit", str |-> str]
In(set) == [k |-> "set", set |-> set, neg |-> FALSE]
NotIn(set) == [k |-> "set", set |-> set, neg |-> TRUE]
\* body{min,max}; max = -1 for no upper limit
Times(body, min, max) == [k |-> "rep", body |-> body, min |-> min, max |-> max]
Many(node) == Times(<<node>>, 0, -1)
Some(node) == Times(<<node>>, 1, -1)
Maybe(body) == Times(body, 0, 1)
Either(alts) == [k |-> "alt", alts |-> alts]
\* ^ and $ with the m flag, ^ and $ without it, \b
LineStart == [k |-> "bol"]
LineEnd == [k |-> "eol"]
InputStart == [k |-> "bos"]
InputEnd == [k |-> "eos"]
WordBoundary == [k |-> "wb"]
\* . without and with the s flag
Dot == NotIn({"\n", "\r"})
DotAll == NotIn({})

Fits(node, t, i) == i <= t.n /\ ((t.c[i] \in node.set) # node.neg)
\* a run that stops in the first half, or goes on into the second
RunOn(first, half, second) == IF first < half THEN first ELSE half + second
\* the first way that matches: 0 stands for no match
FirstOf(way, other) == IF way # 0 THEN way ELSE other
RECURSIVE RunLength(_, _, _, _)
\* how many characters from i on fit the set, limit at most; the stretch
\* is halved so that a long run does not nest deeply
RunLength(node, t, i, limit) ==
  IF limit = 0 THEN 0
  ELSE IF limit = 1 THEN (IF Fits(node, t, i) THEN 1 ELSE 0)
  ELSE RunOn(RunLength(node, t, i, limit \div 2), limit \div 2,
             RunLength(node, t, i + limit \div 2, limit - limit \div 2))
IsWordAt(t, i) == i >= 1 /\ i <= t.n /\ t.c[i] \in Word

RECURSIVE Exec(_, _, _)
RECURSIVE Shorten(_, _, _, _, _)
RECURSIVE Branches(_, _, _, _)
\* the position after the match of nodes that starts at i, 0 if there is none
Exec(nodes, t, i) ==
  IF nodes = <<>> THEN i
  ELSE
    LET node == Head(nodes)
        rest == Tail(nodes)
    IN CASE node.k = "lit" ->
              IF i + Len(node.str) - 1 <= t.n
                 /\ SubSeq(t.s, i, i + Len(node.str) - 1) = node.str
              THEN Exec(rest, t, i + Len(node.str)) ELSE 0
         [] node.k = "set" ->
              IF Fits(node, t, i) THEN Exec(rest, t, i + 1) ELSE 0
         [] node.k = "rep" ->
              IF Len(node.body) = 1 /\ node.body[1].k = "set"
              THEN Shorten(rest, t, i, node.min,
                     RunLength(node.body[1], t, i,
                               IF node.max < 0 THEN t.n ELSE node.max))
              ELSE FirstOf(IF node.max = 0 THEN 0
                           ELSE Exec(node.body
                                     \o <<[k |-> "again", of |-> node, from |-> i]>>
                                     \o rest, t, i),
                           IF node.min = 0 THEN Exec(rest, t, i) ELSE 0)
         [] node.k = "again" ->
              \* a round that took nothing is not repeated
              IF i = node.from THEN 0
              ELSE Exec(<<Times(node.of.body,
                                IF node.of.min > 0 THEN node.of.min - 1 ELSE 0,
                                IF node.of.max > 0 THEN node.of.max - 1
                                ELSE node.of.max)>> \o rest, t, i)
         [] node.k = "alt" -> Branches(node.alts, rest, t, i)
         [] node.k = "bol" ->
              IF i = 1 \/ t.c[i - 1] = "\n" THEN Exec(rest, t, i) ELSE 0
         [] node.k = "eol" ->
              IF i = t.n + 1 \/ t.c[i] = "\n" THEN Exec(rest, t, i) ELSE 0
         [] node.k = "bos" -> IF i = 1 THEN Exec(rest, t, i) ELSE 0
         [] node.k = "eos" -> IF i = t.n + 1 THEN Exec(rest, t, i) ELSE 0
         [] node.k = "wb" ->
              IF IsWordAt(t, i - 1) # IsWordAt(t, i) THEN Exec(rest, t, i) ELSE 0
\* the repetition gives back what it took, one character at a time, until
\* the rest matches: the longest of lo..hi taken characters comes first
Shorten(rest, t, i, lo, hi) ==
  IF lo > hi THEN 0
  ELSE IF lo = hi THEN Exec(rest, t, i + lo)
  ELSE FirstOf(Shorten(rest, t, i, (lo + hi) \div 2 + 1, hi),
               Shorten(rest, t, i, lo, (lo + hi) \div 2))
Branches(alts, rest, t, i) ==
  IF alts = <<>> THEN 0
  ELSE FirstOf(Exec(Head(alts) \o rest, t, i), Branches(Tail(alts), rest, t, i))

\* a match is <<start, position after it>>, <<0, 0>> when there is none
MatchAt(start, end) == IF end # 0 THEN <<start, end>> ELSE <<0, 0>>
FirstMatchOf(lower, higher) == IF lower[1] # 0 THEN lower ELSE higher
RECURSIVE Leftmost(_, _, _, _)
\* the match with the least start in lo..hi
Leftmost(re, t, lo, hi) ==
  IF lo > hi THEN <<0, 0>>
  ELSE IF lo = hi THEN MatchAt(lo, Exec(re, t, lo))
  ELSE FirstMatchOf(Leftmost(re, t, lo, (lo + hi) \div 2),
                    Leftmost(re, t, (lo + hi) \div 2 + 1, hi))
\* the leftmost match at or after from
Search(re, t, from) == Leftmost(re, t, from, t.n + 1)
RECURSIVE MatchesFrom(_, _, _)
RECURSIVE MatchesWith(_, _, _)
\* the matches of a pattern with the g flag, one after the other
MatchesFrom(re, t, from) == MatchesWith(re, t, Search(re, t, from))
\* the match m and those after it; after an empty match the search moves on
\* by one character
MatchesWith(re, t, m) ==
  IF m[1] = 0 THEN <<>>
  ELSE <<SubSeq(t.s, m[1], m[2] - 1)>>
       \o MatchesFrom(re, t, IF m[2] = m[1] THEN m[2] + 1 ELSE m[2])
\* code.match(re) of a pattern with the g flag: <<>> stands for null
MatchAll(re, code) == MatchesFrom(re, TextOf(code), 1)
\* code.match(re) !== null of a pattern without the g flag, re.test(code)
Test(re, code) == Search(re, TextOf(code), 1)[1] # 0
\* code.includes(str)
Includes(code, str) == StrIncludes(code, str)

RECURSIVE LinesOf(_)
\* code.split('\n')
LinesOf(str) ==
  LET breaks == {i \in 1..Len(str) : SubSeq(str, i, i) = "\n"}
  IN IF breaks = {} THEN <<str>>
     ELSE LET i == CHOOSE b \in breaks : \A c \in breaks : b <= c
          IN <<SubSeq(str, 1, i - 1)>> \o LinesOf(SubSeq(str, i + 1, Len(str)))
\* code.indexOf(str), counted from 1; 0 when str does not occur
IndexOf(code, str) ==
  LET found == {i \in 1..(Len(code) - Len(str) + 1) :
                  SubSeq(code, i, i + Len(str) - 1) = str}
  IN IF found = {} THEN 0 ELSE CHOOSE i \in found : \A j \in found : i <= j
RECURSIVE Removed(_, _, _)
RECURSIVE RemovedWith(_, _, _, _)
\* text.replace(re, '') of a pattern with the g flag
Removed(re, t, from) == RemovedWith(re, t, from, Search(re, t, from))
RemovedWith(re, t, from, m) ==
  IF m[1] = 0 THEN SubSeq(t.s, from, t.n)
  ELSE IF m[2] = m[1]
  THEN SubSeq(t.s, from, m[1]) \o Removed(re, t, m[1] + 1)
  ELSE SubSeq(t.s, from, m[1] - 1) \o Removed(re, t, m[2])

\* array.push(message) under a condition, and what an array holds in the end
Push(cond, array, message) ==
  IF cond THEN << [to |-> array, message |-> message] >> ELSE <<>>
PushAll(array, messages) ==
  [i \in DOMAIN messages |-> [to |-> array, message |-> messages[i]]]
RECURSIVE Held(_, _)
Held(pushes, array) ==
  IF pushes = <<>> THEN <<>>
  ELSE (IF Head(pushes).to = array THEN <<Head(pushes).message>> ELSE <<>>)
       \o Held(Tail(pushes), array)
\* if (count > least) array.push('before${count}after')
PushCount(count, least, array, before, after) ==
  Push(count > least, array, before \o ToString(count) \o after)
\* if (items.length > 0) result.push(header, ...items, '') for the arrays of
\* heads in turn; a head is <<array, header, what follows the items>>
Headed(pushes, heads) ==
  Flatten([i \in DOMAIN heads |->
             LET items == Held(pushes, heads[i][1])
             IN IF Len(items) > 0 THEN <<heads[i][2]>> \o items \o heads[i][3]
                ELSE <<>>])
\* if (result.length === 0) return message; return result.join('\n'), after
\* the lines that are pushed when result holds something
JoinOrDefault(result, more, message) ==
  IF Len(result) = 0 THEN message ELSE JoinWith(result \o more, "\n")

\* the patterns of analyzeCodeStyle, checkIndentation and analyzeImports
StylePatterns ==
  [ \* /\b[a-z]+[A-Z][a-zA-Z]*\s*[=:]/g
    badVariableNames |->
      <<WordBoundary, Some(In(Lower)), In(Upper), Many(In(Lower \cup Upper)),
        Many(In(Blank)), In({"=", ":"})>>,
    \* /\b[A-Z][a-z]+(?:[A-Z][a-z]+)*\s*[=:]/g
    pascalCaseVars |->
      <<WordBoundary, In(Upper), Some(In(Lower)),
        Times(<<In(Upper), Some(In(Lower))>>, 0, -1),
        Many(In(Blank)), In({"=", ":"})>>,
    \* /(?:pub\s+)?fn\s+[a-z]+[A-Z][a-zA-Z]*\s*\(/g
    badFunctionNames |->
      <<Maybe(<<Lit("pub"), Some(In(Blank))>>), Lit("fn"), Some(In(Blank)),
        Some(In(Lower)), In(Upper), Many(In(Lower \cup Upper)),
        Many(In(Blank)), Lit("(")>>,
    \* /(?:const|var)\s+[a-z][a-zA-Z]*\s*=\s*(?:struct|enum|union)/g
    badTypeNames |->
      <<Either(<< <<Lit("const")>>, <<Lit("var")>> >>), Some(In(Blank)),
        In(Lower), Many(In(Lower \cup Upper)), Many(In(Blank)), Lit("="),
        Many(In(Blank)),
        Either(<< <<Lit("struct")>>, <<Lit("enum")>>, <<Lit("union")>> >>)>>,
    \* /const\s+[a-z][a-z_]*\s*[=:]/g
    constantPatterns |->
      <<Lit("const"), Some(In(Blank)), In(Lower), Many(In(Lower \cup {"_"})),
        Many(In(Blank)), In({"=", ":"})>>,
    \* /\s+$/
    trailingWhitespace |-> <<Some(In(Blank)), InputEnd>>,
    \* /pub\s+fn\s+\w+/g
    publicFunctions |->
      <<Lit("pub"), Some(In(Blank)), Lit("fn"), Some(In(Blank)), Some(In(Word))>>,
    \* /\/\/[!/][^\n]*/g
    docComments |-> <<Lit("//"), In({"!", "/"}), Many(NotIn({"\n"}))>>,
    \* /^\/\/!/m
    moduleDoc |-> <<LineStart, Lit("//!")>>,
    \* /\w[+\-*/%=!<>]+\w/g
    badOperatorSpacing |->
      <<In(Word), Some(In({"+", "-", "*", "/", "%", "=", "!", "<", ">"})),
        In(Word)>>,
    \* /,\w/g
    badCommaSpacing |-> <<Lit(","), In(Word)>>,
    \* /;\s*$/gm
    unnecessarySemicolons |-> <<Lit(";"), Many(In(Blank)), LineEnd>>,
    \* /\{\s*\n/g
    openBraceNewline |-> <<Lit("{"), Many(In(Blank)), Lit("\n")>>,
    \* /\S\s*\{/g
    openBraceSameLine |-> <<NotIn(Blank), Many(In(Blank)), Lit("{")>>,
    \* /\/\/\s*(TODO|FIXME|XXX|HACK|BUG)/gi
    todoComments |->
      <<Lit("//"), Many(In(Blank)),
        Either(<< <<In({"T", "t"}), In({"O", "o"}), In({"D", "d"}), In({"O", "o"})>>,
                  <<In({"F", "f"}), In({"I", "i"}), In({"X", "x"}), In({"M", "m"}),
                    In({"E", "e"})>>,
                  <<In({"X", "x"}), In({"X", "x"}), In({"X", "x"})>>,
                  <<In({"H", "h"}), In({"A", "a"}), In({"C", "c"}), In({"K", "k"})>>,
                  <<In({"B", "b"}), In({"U", "u"}), In({"G", "g"})>> >>)>>,
    \* /\/\/\s*$/gm
    emptyComments |-> <<Lit("//"), Many(In(Blank)), LineEnd>>,
    \* /\[\]u8\{/g
    oldArraySyntax |-> <<Lit("[]u8{")>>,
    \* /^(\s*)/
    indent |-> <<InputStart, Many(In(Blank))>>,
    \* /^[\s]*\t[\s]*/
    tabIndent |-> <<InputStart, Many(In(Blank)), Lit("\t"), Many(In(Blank))>>,
    \* /^[\s]*\t/
    tabIndentStart |-> <<InputStart, Many(In(Blank)), Lit("\t")>>,
    \* /@import\([^)]+\)/g
    imports |-> <<Lit("@import("), Some(NotIn({")"})), Lit(")")>>,
    \* /\/\/[^\n]*\n?/g
    comment |-> <<Lit("//"), Many(NotIn({"\n"})), Times(<<In({"\n"})>>, 0, 1)>> ]

\* checkIndentation(lines)
checkIndentation(lines) ==
  LET Inconsistent(line) ==
        LET m == Search(StylePatterns.indent, TextOf(line), 1)
            indent == m[2] - m[1]
        IN /\ Trim(line) # ""
           /\ \/ Test(StylePatterns.tabIndent, line)
              \/ Test(StylePatterns.tabIndentStart, line)
              \/ (indent % 4 # 0 /\ indent > 0)
      inconsistentIndent == \E i \in DOMAIN lines : Inconsistent(lines[i])
  IN When(inconsistentIndent, <<"- Use consistent 4-space indentation">>)

\* checkDeprecatedPatterns(code)
checkDeprecatedPatterns(code) ==
  Flatten(<<
    When(Includes(code, ".setTarget("),
         <<"- Replace .setTarget() with target parameter in addExecutable()">>),
    When(Includes(code, ".setBuildMode("),
         <<"- Replace .setBuildMode() with optimize parameter in addExecutable()">>),
    When(Includes(code, "std.build.Builder"),
         <<"- Replace std.build.Builder with *std.Build in Zig 0.12+">>),
    When(Includes(code, ".{ .path = ") /\ ~Includes(code, "b.path("),
         <<"- Modernize to Zig 0.15.2+: use b.path(\"file.zig\") instead of .{ .path = \"file.zig\" }">>),
    When(Includes(code, ".addModule(") /\ ~Includes(code, "root_module"),
         <<"- Modernize to Zig 0.15.2+: use .root_module.addImport() instead of .addModule()">>),
    When(Includes(code, "@import(\"build_options\")"),
         <<"- Consider using @import(\"config\") for build options in modern Zig">>),
    When(Includes(code, "std.fmt.allocPrintZ"),
         <<"- Consider using std.fmt.allocPrint with explicit null termination">>) >>)

\* analyzeImports(code)
analyzeImports(code) ==
  LET imports == MatchAll(StylePatterns.imports, code)
      firstImportIndex == IndexOf(code, "@import")
      nonCommentCodeBefore ==
        Trim(Removed(StylePatterns.comment,
                     TextOf(SubSeq(code, 1, firstImportIndex - 1)), 1))
  IN When(Len(imports) > 1 /\ Len(nonCommentCodeBefore) > 0,
          <<"- Move imports to the top of the file">>)

\* ZigStyleChecker.analyzeCodeStyle(code)
analyzeCodeStyle(code) ==
  LET P == StylePatterns
      Found(re) == Len(MatchAll(re, code))
      lines == LinesOf(code)
      Lines(Cond(_, _)) == Cardinality({i \in DOMAIN lines : Cond(lines[i], i)})
      TrailingWhitespace(line, i) ==
        Test(P.trailingWhitespace, line) /\ i < Len(lines)
      HasTab(line, i) == Includes(line, "\t")
      Long(line, i) == Len(line) > 100
      VeryLong(line, i) == Len(line) > 120
      publicFunctions == Found(P.publicFunctions)
      docComments == Found(P.docComments)
      pushes ==
        Flatten(<<
          PushCount(Found(P.badVariableNames), 0, "issues",
               "- Use snake_case for variables: found ",
               " camelCase variables"),
          PushCount(Found(P.pascalCaseVars), 0, "issues",
               "- Use snake_case for variables: found ",
               " PascalCase variables"),
          PushCount(Found(P.badFunctionNames), 0, "issues",
               "- Use snake_case for functions: found ",
               " camelCase functions"),
          PushCount(Found(P.badTypeNames), 0, "issues",
               "- Use PascalCase for types: found ",
               " incorrectly named types"),
          PushCount(Found(P.constantPatterns), 0, "warnings",
               "- Consider SCREAMING_SNAKE_CASE for module-level constants: found ",
               " cases"),
          PushCount(Lines(TrailingWhitespace), 0, "issues",
               "- Remove trailing whitespace: found on ",
               " lines"),
          PushCount(Lines(HasTab), 0, "issues",
               "- Use 4 spaces instead of tabs: found on ",
               " lines"),
          PushAll("issues", checkIndentation(lines)),
          PushCount(Lines(Long), 0, "warnings",
               "- Consider breaking long lines: ",
               " lines exceed 100 characters"),
          PushCount(Lines(VeryLong), 0, "issues",
               "- Break very long lines: ",
               " lines exceed 120 characters"),
          Push(publicFunctions > 0 /\ docComments < publicFunctions, "issues",
               "- Add documentation for public functions: "
               \o ToString(publicFunctions - docComments)
               \o " functions lack doc comments"),
          Push(~Test(P.moduleDoc, code), "warnings",
               "- Add module-level documentation with //! comment"),
          PushCount(Found(P.badOperatorSpacing), 0, "warnings",
               "- Add spaces around operators: found ",
               " instances"),
          PushCount(Found(P.badCommaSpacing), 0, "warnings",
               "- Add space after commas: found ",
               " instances"),
          PushCount(Found(P.unnecessarySemicolons), 3, "suggestions",
               "- Remove unnecessary semicolons: found ",
               " trailing semicolons"),
          Push(Found(P.openBraceNewline) > 0 /\ Found(P.openBraceSameLine) > 0,
               "warnings",
               "- Use consistent brace placement (Zig prefers same-line opening braces)"),
          PushCount(Found(P.todoComments), 0, "warnings",
               "- Address ",
               " TODO/FIXME comments before production"),
          PushCount(Found(P.emptyComments), 0, "suggestions",
               "- Remove ",
               " empty comment lines"),
          PushCount(Found(P.oldArraySyntax), 0, "suggestions",
               "- Use modern array literal syntax: found ",
               " old-style arrays"),
          PushAll("issues", checkDeprecatedPatterns(code)),
          PushAll("suggestions", analyzeImports(code)) >>)
      result ==
        Headed(pushes,
               << <<"issues", "**Critical Issues:**", <<"">> >>,
                  <<"warnings", "**Warnings:**", <<"">> >>,
                  <<"suggestions", "**Suggestions:**", <<>> >> >>)
  IN JoinOrDefault(result, <<>>,
                   "U+2705 Code follows Zig style guidelines excellently")

\* the patterns of analyzePatterns
DesignPatterns ==
  [ \* /allocator\.alloc.*allocator\.alloc/s
    twoAllocations |->
      <<Lit("allocator.alloc"), Many(DotAll), Lit("allocator.alloc")>>,
    \* /while\s*\(true\)/
    whileTrue |-> <<Lit("while"), Many(In(Blank)), Lit("(true)")>>,
    \* /if\s*\([^)]*\)\s*\{[^}]*if\s*\(/g
    nestedIf |->
      <<Lit("if"), Many(In(Blank)), Lit("("), Many(NotIn({")"})), Lit(")"),
        Many(In(Blank)), Lit("{"), Many(NotIn({"}"})), Lit("if"),
        Many(In(Blank)), Lit("(")>>,
    \* /if\s*\([^)]*\)\s*\{[^}]*\}\s*else\s+if\s*\([^)]*\)\s*\{[^}]*\}\s*else\s+if/g
    ifElseChains |->
      <<Lit("if"), Many(In(Blank)), Lit("("), Many(NotIn({")"})), Lit(")"),
        Many(In(Blank)), Lit("{"), Many(NotIn({"}"})), Lit("}"),
        Many(In(Blank)), Lit("else"), Some(In(Blank)),
        Lit("if"), Many(In(Blank)), Lit("("), Many(NotIn({")"})), Lit(")"),
        Many(In(Blank)), Lit("{"), Many(NotIn({"}"})), Lit("}"),
        Many(In(Blank)), Lit("else"), Some(In(Blank)), Lit("if")>>,
    \* /unreachable/g
    unreachable |-> <<Lit("unreachable")>>,
    \* /try\s+\w+\([^)]*\);\s*return/
    tryThenReturn |->
      <<Lit("try"), Some(In(Blank)), Some(In(Word)), Lit("("),
        Many(NotIn({")"})), Lit(");"), Many(In(Blank)), Lit("return")>>,
    \* /==\s*"[^"]*"/
    stringComparison |->
      <<Lit("=="), Many(In(Blank)), Lit("\""), Many(NotIn({"\""})), Lit("\"")>>,
    \* /comptime/g
    comptime |-> <<Lit("comptime")>>,
    \* /switch\s*\([^)]*\)\s*\{[^}]*null[^}]*\}/
    switchOnNull |->
      <<Lit("switch"), Many(In(Blank)), Lit("("), Many(NotIn({")"})), Lit(")"),
        Many(In(Blank)), Lit("{"), Many(NotIn({"}"})), Lit("null"),
        Many(NotIn({"}"})), Lit("}")>>,
    \* /defer/g
    defer |-> <<Lit("defer")>>,
    \* /pub\s+(?:fn|const|var)/g
    exported |->
      <<Lit("pub"), Some(In(Blank)),
        Either(<< <<Lit("fn")>>, <<Lit("const")>>, <<Lit("var")>> >>)>>,
    \* /(?:fn|const|var)\s+\w+/g
    declared |->
      <<Either(<< <<Lit("fn")>>, <<Lit("const")>>, <<Lit("var")>> >>),
        Some(In(Blank)), Some(In(Word))>>,
    \* /fn\s+\w+/g
    functions |-> <<Lit("fn"), Some(In(Blank)), Some(In(Word))>> ]

\* ZigStyleChecker.analyzePatterns(code)
analyzePatterns(code) ==
  LET P == DesignPatterns
      Found(re) == Len(MatchAll(re, code))
      nestedIfCount == Found(P.nestedIf)
      unreachableCount == Found(P.unreachable)
      comptimeUsage == Found(P.comptime)
      deferCount == Found(P.defer)
      exportCount == Found(P.exported)
      privateCount == Found(P.declared) - exportCount
      functionCount == Found(P.functions)
      \* avgLinesPerFunction > 50, without the division
      largeFunctions == functionCount > 0 /\ Len(LinesOf(code)) > 50 * functionCount
      pushes ==
        Flatten(<<
          Push(Includes(code, "std.ArrayList") /\ ~Includes(code, "deinit"),
               "antiPatterns",
               "- Missing deinit() for ArrayList - potential memory leak"),
          Push(Includes(code, "std.HashMap") /\ ~Includes(code, "deinit"),
               "antiPatterns",
               "- Missing deinit() for HashMap - potential memory leak"),
          Push(Includes(code, "allocator.alloc") /\ ~Includes(code, "defer")
               /\ ~Includes(code, "deinit"),
               "antiPatterns",
               "- Raw allocations without defer or deinit - memory leak risk"),
          IF Includes(code, "std.heap.ArenaAllocator")
          THEN Push(TRUE, "improvements",
                    "U+2713 Good: Using ArenaAllocator for batch memory management")
          ELSE Push(Test(P.twoAllocations, code), "improvements",
                    "- Consider ArenaAllocator for multiple related allocations"),
          Push(Test(P.whileTrue, code), "antiPatterns",
               "- Infinite loops: use labeled breaks or better termination conditions"),
          PushCount(nestedIfCount, 2, "improvements",
               "- Consider early returns to reduce nesting (",
               " nested conditions)"),
          Push(Found(P.ifElseChains) > 0, "improvements",
               "- Consider switch statements for multiple conditions on same variable"),
          Push(Includes(code, "@panic"), "antiPatterns",
               "- Avoid @panic: use proper error handling with error unions"),
          Push(Includes(code, "unreachable") /\ unreachableCount > 2,
               "antiPatterns",
               "- Excessive unreachable usage (" \o ToString(unreachableCount)
               \o ") - review error handling"),
          Push(Includes(code, "!") /\ ~Includes(code, "try")
               /\ ~Includes(code, "catch"),
               "antiPatterns",
               "- Error union types without try/catch - potential runtime panics"),
          Push(Test(P.tryThenReturn, code), "improvements",
               "U+2713 Good: Proper error propagation with try"),
          Push(Includes(code, "std.fmt.allocPrint"), "improvements",
               "- Consider std.fmt.bufPrint for stack-based formatting when size is known"),
          Push(Test(P.stringComparison, code), "improvements",
               "- Use std.mem.eql(u8, str1, str2) for string comparisons"),
          PushCount(comptimeUsage, 0, "modernPatterns",
               "U+2713 Excellent: Using comptime (",
               " instances) for compile-time evaluation"),
          Push(Includes(code, "anytype"), "modernPatterns",
               "U+2713 Good: Using generic programming with anytype"),
          Push(Includes(code, "@TypeOf") \/ Includes(code, "@typeInfo"),
               "modernPatterns",
               "U+2713 Advanced: Using type reflection for metaprogramming"),
          Push(Includes(code, "if (optional) |value|"), "modernPatterns",
               "U+2713 Excellent: Using optional unwrapping with if-let syntax"),
          Push(Test(P.switchOnNull, code), "modernPatterns",
               "U+2713 Good: Using switch for optional handling"),
          PushCount(deferCount, 0, "modernPatterns",
               "U+2713 Excellent: Using defer (",
               " instances) for automatic cleanup"),
          Push(Includes(code, "packed struct"), "modernPatterns",
               "U+2713 Good: Using packed structs for memory efficiency"),
          Push(Includes(code, "inline fn"), "improvements",
               "- Review inline functions: ensure performance benefit justifies code size increase"),
          Push(Includes(code, "@Vector") \/ Includes(code, "std.simd"),
               "modernPatterns",
               "U+2713 Advanced: Using SIMD for vectorized operations"),
          Push(Includes(code, "async") \/ Includes(code, "await"),
               "modernPatterns",
               "U+2713 Advanced: Using async/await for concurrent programming"),
          Push(Includes(code, "std.Thread") /\ ~Includes(code, "Mutex"),
               "antiPatterns",
               "- Multi-threading without synchronization primitives - race condition risk"),
          Push(exportCount > privateCount /\ exportCount > 5,
               "architecturalConcerns",
               "- High public API surface - consider reducing exported symbols"),
          Push(largeFunctions, "architecturalConcerns",
               "- Large functions detected - consider breaking into smaller units"),
          Push(Includes(code, "test ") /\ ~Includes(code, "testing.expect"),
               "improvements",
               "- Add assertions to tests with testing.expect* functions"),
          Push(Includes(code, "@cImport") \/ Includes(code, "extern"),
               "modernPatterns", "U+2713 Advanced: Using C interoperability"),
          Push((Includes(code, "@cImport") \/ Includes(code, "extern"))
               /\ ~Includes(code, "std.c."),
               "improvements",
               "- Consider using std.c namespace for C library functions") >>)
      result ==
        Headed(pushes,
               << <<"antiPatterns", "**Anti-patterns & Issues:**", <<"">> >>,
                  <<"improvements", "**Improvement Opportunities:**", <<"">> >>,
                  <<"modernPatterns", "**Modern Zig Patterns Detected:**", <<"">> >>,
                  <<"architecturalConcerns", "**Architectural Considerations:**",
                    <<>> >> >>)
  IN JoinOrDefault(
       result, <<>>,
       "U+2705 No significant pattern issues detected - code follows modern Zig idioms")

\* the patterns of analyzeSafety
SafetyPatterns ==
  [ \* /\[[^\]]*\]/g
    arrayAccess |-> <<Lit("["), Many(NotIn({"]"})), Lit("]")>>,
    \* /\[\w+\]/
    indexed |-> <<Lit("["), Some(In(Word)), Lit("]")>>,
    \* /\/\s*\w+/
    division |-> <<Lit("/"), Many(In(Blank)), Some(In(Word))>>,
    \* /error\s*\{[^}]*\}/g
    errorTypes |->
      <<Lit("error"), Many(In(Blank)), Lit("{"), Many(NotIn({"}"})), Lit("}")>>,
    \* /\.alloc\(|\.create\(/g
    allocPatterns |-> <<Either(<< <<Lit(".alloc(")>>, <<Lit(".create(")>> >>)>>,
    \* /\.free\(|\.destroy\(|deinit\(/g
    deallocPatterns |->
      <<Either(<< <<Lit(".free(")>>, <<Lit(".destroy(")>>, <<Lit("deinit(")>> >>)>>,
    \* /\w+\.deinit\(\);[\s\S]*\w+\./
    useAfterDeinit |->
      <<Some(In(Word)), Lit(".deinit();"), Many(DotAll), Some(In(Word)), Lit(".")>>,
    \* /[0-9.]+\s*==\s*[0-9.]+/
    numberEquality |->
      <<Some(In(Digit \cup {"."})), Many(In(Blank)), Lit("=="), Many(In(Blank)),
        Some(In(Digit \cup {"."}))>>,
    \* /for\s*\([^)]*\+\+[^)]*\)/
    incrementLoop |->
      <<Lit("for"), Many(In(Blank)), Lit("("), Many(NotIn({")"})), Lit("++"),
        Many(NotIn({")"})), Lit(")")>> ]

\* ZigStyleChecker.analyzeSafety(code); the backquotes of its last lines
\* are written as apostrophes
analyzeSafety(code) ==
  LET P == SafetyPatterns
      Found(re) == Len(MatchAll(re, code))
      arrayAccess == MatchAll(P.arrayAccess, code)
      Unsafe(access) ==
        \/ (~Includes(access, "..") /\ ~Includes(access, "std.math.min")
            /\ Includes(access, "[i]"))
        \/ Includes(access, "[idx]")
        \/ Test(P.indexed, access)
      unsafeAccess == SelectSeq(arrayAccess, Unsafe)
      allocPatterns == Found(P.allocPatterns)
      deallocPatterns == Found(P.deallocPatterns)
      pushes ==
        Flatten(<<
          Push(Includes(code, "undefined"), "criticalIssues",
               "- Undefined memory usage - initialize variables explicitly"),
          Push(Len(arrayAccess) > 0 /\ ~Includes(code, "bounds check")
               /\ Len(unsafeAccess) > 0,
               "safetyWarnings",
               "- Potential bounds violations: " \o ToString(Len(unsafeAccess))
               \o " unchecked array accesses"),
          Push(Includes(code, "@ptrCast"), "criticalIssues",
               "- Pointer casting detected - verify type safety and alignment"),
          Push(Includes(code, "@intToPtr") \/ Includes(code, "@ptrToInt"),
               "criticalIssues",
               "- Raw pointer/integer conversions - ensure memory safety"),
          Push(Includes(code, "@alignCast"), "safetyWarnings",
               "- Alignment casting - verify target alignment requirements"),
          Push(Includes(code, "@intCast") /\ ~Includes(code, "try"),
               "criticalIssues",
               "- Unsafe integer casting - use std.math.cast() for safe conversions"),
          Push(Includes(code, "+%") \/ Includes(code, "-%") \/ Includes(code, "*%"),
               "safetyWarnings",
               "- Wrapping arithmetic detected - ensure overflow behavior is intended"),
          Push(Test(P.division, code) /\ ~Includes(code, "!= 0"),
               "safetyWarnings", "- Division operations without zero checks"),
          Push(Includes(code, "!void") /\ ~Includes(code, "try"),
               "criticalIssues",
               "- Error-prone functions called without try/catch - potential crashes"),
          Push(Found(P.errorTypes) > 0 /\ ~Includes(code, "try"),
               "safetyWarnings",
               "- Error types defined but no error handling visible"),
          Push(Includes(code, "catch |err|") /\ Includes(code, "unreachable"),
               "criticalIssues", "- Catch-all with unreachable - may hide errors"),
          Push(Includes(code, "std.Thread") /\ ~Includes(code, "std.Thread.Mutex"),
               "securityConcerns",
               "- Multi-threading without synchronization - race condition risk"),
          Push(Includes(code, "var ") /\ Includes(code, "std.Thread"),
               "safetyWarnings",
               "- Shared mutable variables in multi-threaded context"),
          Push(Includes(code, "std.atomic"), "bestPractices",
               "U+2713 Good: Using atomic operations for thread-safe access"),
          Push(allocPatterns > deallocPatterns + 1, "criticalIssues",
               "- Potential memory leaks: " \o ToString(allocPatterns)
               \o " allocations vs " \o ToString(deallocPatterns)
               \o " deallocations"),
          Push(Includes(code, "defer") /\ Includes(code, "deinit"),
               "bestPractices",
               "U+2713 Excellent: Using defer for automatic cleanup"),
          Push(Test(P.useAfterDeinit, code), "safetyWarnings",
               "- Potential use-after-free: operations after deinit()"),
          Push(Includes(code, "std.io.getStdIn") /\ ~Includes(code, "trim"),
               "safetyWarnings", "- User input without sanitization/validation"),
          Push(Includes(code, "std.fmt.bufPrint") /\ ~Includes(code, ".len"),
               "safetyWarnings", "- Buffer operations without size validation"),
          Push(Test(P.numberEquality, code)
               /\ (Includes(code, "f32") \/ Includes(code, "f64")),
               "safetyWarnings",
               "- Direct floating-point equality comparisons - use epsilon comparison"),
          Push(Test(P.incrementLoop, code), "safetyWarnings",
               "- C-style loops with increment - prefer Zig range syntax"),
          Push(Includes(code, "std.crypto") /\ Includes(code, "rand"),
               "bestPractices",
               "U+2713 Good: Using cryptographic random number generation"),
          Push(Includes(code, "std.crypto") /\ Includes(code, "std.mem.eql"),
               "safetyWarnings",
               "- String comparison in crypto context - consider constant-time comparison"),
          Push(Includes(code, "std.fs.openFile") /\ ~Includes(code, "sanitize"),
               "securityConcerns",
               "- File operations without path sanitization - directory traversal risk"),
          Push(Includes(code, "@import(\"builtin\")") /\ Includes(code, "os.tag"),
               "bestPractices",
               "U+2713 Good: Platform-aware code with proper OS detection"),
          Push(Includes(code, "@bitCast")
               /\ (Includes(code, "u16") \/ Includes(code, "u32")
                   \/ Includes(code, "u64")),
               "safetyWarnings",
               "- Bit casting multi-byte integers - consider endianness implications"),
          Push(Includes(code, "@setRuntimeSafety(false)"), "criticalIssues",
               "- Runtime safety disabled - ensure this is necessary and well-tested"),
          Push(Includes(code, "// SAFETY:"), "bestPractices",
               "U+2713 Excellent: Documented safety assumptions with comments") >>)
      result ==
        Headed(pushes,
               << <<"criticalIssues", "U+1F6A8 **Critical Safety Issues:**", <<"">> >>,
                  <<"securityConcerns", "U+1F512 **Security Concerns:**", <<"">> >>,
                  <<"safetyWarnings", "U+26A0U+FE0F **Safety Warnings:**", <<"">> >>,
                  <<"bestPractices", "U+2705 **Safety Best Practices:**", <<>> >> >>)
  IN JoinOrDefault(
       result,
       <<"", "U+1F4CB **General Safety Recommendations:**",
         "- Use 'zig build -Doptimize=Debug' during development for runtime safety checks",
         "- Enable AddressSanitizer: 'zig build -Doptimize=Debug -fsanitize=address'",
         "- Consider fuzzing for user-facing input handling",
         "- Add comprehensive test coverage for error conditions",
         "- Document safety assumptions and invariants">>,
       "U+2705 Code appears to follow safe programming practices")

\* the patterns of analyzePerformance, calculateNestedLoopDepth and
\* estimateComplexity
PerformancePatterns ==
  [ \* /for\s*\([^)]*\)\s*\{[^}]*HashMap[^}]*\}/s
    hashMapInLoop |->
      <<Lit("for"), Many(In(Blank)), Lit("("), Many(NotIn({")"})), Lit(")"),
        Many(In(Blank)), Lit("{"), Many(NotIn({"}"})), Lit("HashMap"),
        Many(NotIn({"}"})), Lit("}")>>,
    \* /for\s*\([^)]*\)\s*\{[^}]*std\.fmt[^}]*\}/s
    formatInLoop |->
      <<Lit("for"), Many(In(Blank)), Lit("("), Many(NotIn({")"})), Lit(")"),
        Many(In(Blank)), Lit("{"), Many(NotIn({"}"})), Lit("std.fmt"),
        Many(NotIn({"}"})), Lit("}")>>,
    \* /initCapacity|ensureCapacity/
    capacity |->
      <<Either(<< <<Lit("initCapacity")>>, <<Lit("ensureCapacity")>> >>)>>,
    \* /\.alloc\(/g
    alloc |-> <<Lit(".alloc(")>>,
    \* /\d+\s*[+\-*]/g
    constantMath |-> <<Some(In(Digit)), Many(In(Blank)), In({"+", "-", "*"})>>,
    \* /comptime/g
    comptime |-> <<Lit("comptime")>>,
    \* /struct\s*\{/g
    struct |-> <<Lit("struct"), Many(In(Blank)), Lit("{")>>,
    \* /for\s*\([^)]*\)\s*\{[^}]*[+*/-][^}]*\}/s
    mathInLoop |->
      <<Lit("for"), Many(In(Blank)), Lit("("), Many(NotIn({")"})), Lit(")"),
        Many(In(Blank)), Lit("{"), Many(NotIn({"}"})),
        In({"+", "*", "/", "-"}), Many(NotIn({"}"})), Lit("}")>>,
    \* /inline fn/g
    inlineFn |-> <<Lit("inline fn")>>,
    \* /for\s*\([^)]*\)\s*\{[^}]*\w+\([^)]*\);[^}]*\}/s
    callInLoop |->
      <<Lit("for"), Many(In(Blank)), Lit("("), Many(NotIn({")"})), Lit(")"),
        Many(In(Blank)), Lit("{"), Many(NotIn({"}"})), Some(In(Word)),
        Lit("("), Many(NotIn({")"})), Lit(");"), Many(NotIn({"}"})), Lit("}")>>,
    \* /for\s*\([^)]*\)\s*\{[^}]*std\.(?:io|fs)[^}]*\}/s
    ioInLoop |->
      <<Lit("for"), Many(In(Blank)), Lit("("), Many(NotIn({")"})), Lit(")"),
        Many(In(Blank)), Lit("{"), Many(NotIn({"}"})), Lit("std."),
        Either(<< <<Lit("io")>>, <<Lit("fs")>> >>),
        Many(NotIn({"}"})), Lit("}")>>,
    \* /else\s+if/g
    elseIf |-> <<Lit("else"), Some(In(Blank)), Lit("if")>>,
    \* /f\d+.*[+*/-].*f\d+/
    floatMath |->
      <<Lit("f"), Some(In(Digit)), Many(Dot), In({"+", "*", "/", "-"}),
        Many(Dot), Lit("f"), Some(In(Digit))>>,
    \* /\w+\s*:\s*u8/
    byteField |->
      <<Some(In(Word)), Many(In(Blank)), Lit(":"), Many(In(Blank)), Lit("u8")>>,
    \* /\[\w+\]\[\w+\]/
    twoIndexes |->
      <<Lit("["), Some(In(Word)), Lit("]["), Some(In(Word)), Lit("]")>>,
    \* /\b(?:for|while)\s*\(/
    loopHead |->
      <<WordBoundary, Either(<< <<Lit("for")>>, <<Lit("while")>> >>),
        Many(In(Blank)), Lit("(")>>,
    \* /(?:for|while)\s*\(/g
    loops |->
      <<Either(<< <<Lit("for")>>, <<Lit("while")>> >>), Many(In(Blank)), Lit("(")>>,
    \* /(?:for|while)[^{]*\{[^}]*(?:for|while)/g
    nestedLoops |->
      <<Either(<< <<Lit("for")>>, <<Lit("while")>> >>), Many(NotIn({"{"})),
        Lit("{"), Many(NotIn({"}"})),
        Either(<< <<Lit("for")>>, <<Lit("while")>> >>)>>,
    \* /fn\s+\w+[^{]*\{[^}]*\w+\s*\([^)]*\)/g
    recursion |->
      <<Lit("fn"), Some(In(Blank)), Some(In(Word)), Many(NotIn({"{"})),
        Lit("{"), Many(NotIn({"}"})), Some(In(Word)), Many(In(Blank)),
        Lit("("), Many(NotIn({")"})), Lit(")")>> ]

\* let maxDepth = 0; let currentDepth = 0; let inLoop = false
ScanStart == [maxDepth |-> 0, currentDepth |-> 0, inLoop |-> FALSE]
\* Math.max(a, b)
Max(a, b) == IF a > b THEN a ELSE b
\* if (line.match(loop head)) { currentDepth++; inLoop = true; maxDepth = ... }
LoopOpened(s, opens) ==
  IF opens
  THEN [maxDepth |-> Max(s.maxDepth, s.currentDepth + 1),
        currentDepth |-> s.currentDepth + 1, inLoop |-> TRUE]
  ELSE s
\* a closing that leaves inLoop set
LoopClosedFlagKept(s, brace) ==
  IF brace /\ s.inLoop
  THEN [maxDepth |-> s.maxDepth, currentDepth |-> Max(0, s.currentDepth - 1),
        inLoop |-> TRUE]
  ELSE s
\* if (line.includes('}') && inLoop) { currentDepth = Math.max(0, ... - 1);
\* if (currentDepth === 0) inLoop = false }
LoopClosed(s, brace) ==
  IF brace /\ s.inLoop
  THEN [maxDepth |-> s.maxDepth,
        currentDepth |-> Max(0, s.currentDepth - 1),
        inLoop |-> Max(0, s.currentDepth - 1) # 0]
  ELSE s
\* a turn that looks for the brace before it looks for the loop head
ScanLineBraceFirst(s, line) ==
  LoopOpened(LoopClosed(s, Includes(line, "}")), Test(PerformancePatterns.loopHead, line))
\* one turn of the loop over the lines
ScanLine(s, line) ==
  LoopClosed(LoopOpened(s, Test(PerformancePatterns.loopHead, line)), Includes(line, "}"))

RECURSIVE LoopDepth(_, _)
\* the loop of calculateNestedLoopDepth over the lines that are left
LoopDepth(lines, s) ==
  IF lines = <<>> THEN s.maxDepth
  ELSE LoopDepth(Tail(lines), ScanLine(s, Head(lines)))
\* calculateNestedLoopDepth(code) of ZigStyleChecker
calculateNestedLoopDepth(code) == LoopDepth(LinesOf(code), ScanStart)

\* estimateComplexity(code) of ZigStyleChecker
estimateComplexity(code) ==
  LET loops == Len(MatchAll(PerformancePatterns.loops, code))
      nestedLoops == Len(MatchAll(PerformancePatterns.nestedLoops, code))
      recursion == Len(MatchAll(PerformancePatterns.recursion, code))
  IN IF nestedLoops > 1 THEN "O(nU+00B3) or higher"
     ELSE IF nestedLoops > 0 THEN "O(nU+00B2)"
     ELSE IF loops > 0 THEN "O(n)"
     ELSE IF recursion > 0 THEN "O(log n) to O(n) - depends on recursion"
     ELSE "O(1)"

getOptimizationPotential(hotspots, optimizations) ==
  IF Len(hotspots) > 2 THEN "High - significant improvements possible"
  ELSE IF Len(optimizations) > 3 THEN "Medium - several improvements available"
  ELSE IF Len(optimizations) > 0 THEN "Low - minor improvements possible"
  ELSE "Minimal - code is well-optimized"

\* analyzePerformance, from COMBINE RESULTS on
PerformanceReport(code, pushes) ==
  JoinOrDefault(
    Headed(pushes,
           << <<"hotspots", "U+1F525 **Performance Hotspots:**", <<"">> >>,
              <<"optimizations", "U+26A1 **Optimization Opportunities:**", <<"">> >>,
              <<"memoryEfficiency", "U+1F9E0 **Memory Efficiency:**", <<"">> >>,
              <<"compiletimeOptimizations",
                "U+23F1U+FE0F **Compile-time Optimizations:**", <<"">> >>,
              <<"benchmarkSuggestions", "U+1F4CA **Benchmarking & Profiling:**",
                <<>> >> >>),
    <<"", "U+1F4C8 **Performance Analysis Summary:**",
      "- Code size: " \o ToString(Len(LinesOf(code))) \o " lines",
      "- Estimated complexity: " \o estimateComplexity(code),
      "- Optimization potential: "
      \o getOptimizationPotential(Held(pushes, "hotspots"),
                                  Held(pushes, "optimizations"))>>,
    "U+2705 No immediate performance concerns detected")

\* ZigStyleChecker.analyzePerformance(code); backquotes are written as
\* apostrophes
analyzePerformance(code) ==
  LET P == PerformancePatterns
      Found(re) == Len(MatchAll(re, code))
      nestedLoopDepth == calculateNestedLoopDepth(code)
      allocCount == Found(P.alloc)
      constantMath == Found(P.constantMath)
      comptimeCount == Found(P.comptime)
      ifElseChains == Found(P.elseIf)
      pushes ==
        Flatten(<<
          IF nestedLoopDepth >= 3
          THEN Push(TRUE, "hotspots",
                    "- Deep nested loops detected (depth "
                    \o ToString(nestedLoopDepth)
                    \o ") - O(nU+00B3) or worse complexity")
          ELSE Push(nestedLoopDepth = 2, "optimizations",
                    "- Nested loops present - consider algorithm optimization for large datasets"),
          Push(Test(P.hashMapInLoop, code), "optimizations",
               "- HashMap operations in loops - consider batching or caching lookups"),
          Push(Test(P.formatInLoop, code), "hotspots",
               "- String formatting in loops - major performance bottleneck"),
          Push(Includes(code, "std.ArrayList") /\ ~Test(P.capacity, code),
               "optimizations",
               "- Pre-allocate ArrayList capacity when size is predictable"),
          PushCount(allocCount, 5, "memoryEfficiency",
               "- Many allocations detected (",
               ") - consider arena allocator"),
          Push(Includes(code, "std.fmt.allocPrint") /\ Includes(code, "++"),
               "hotspots",
               "- String concatenation with allocPrint - use ArrayList(u8) or fixed buffer"),
          PushCount(constantMath, 2, "compiletimeOptimizations",
               "- ",
               " constant expressions - use comptime evaluation"),
          Push(Includes(code, "@sizeOf") \/ Includes(code, "@alignOf"),
               "compiletimeOptimizations",
               "U+2713 Good: Using compile-time type introspection"),
          IF comptimeCount = 0 /\ Includes(code, "for")
          THEN Push(TRUE, "optimizations",
                    "- Consider comptime loops for compile-time known iterations")
          ELSE PushCount(comptimeCount, 0, "compiletimeOptimizations",
                    "U+2713 Excellent: ",
                    " comptime optimizations present"),
          Push(Includes(code, "struct {") /\ ~Includes(code, "packed"),
               "memoryEfficiency",
               "- " \o ToString(Found(P.struct))
               \o " unpacked structs - consider packed structs for memory efficiency"),
          Push(Includes(code, "[]struct") \/ Includes(code, "ArrayList(struct"),
               "optimizations",
               "- Array of Structs detected - consider Struct of Arrays for better cache locality"),
          Push(Test(P.mathInLoop, code) /\ ~Includes(code, "@Vector"),
               "optimizations",
               "- Math operations in loops - consider SIMD vectorization with @Vector"),
          Push(Includes(code, "@Vector"), "compiletimeOptimizations",
               "U+2713 Advanced: Using SIMD vectorization for performance"),
          Push(Includes(code, "inline fn"), "optimizations",
               "- " \o ToString(Found(P.inlineFn))
               \o " inline functions - verify performance benefit vs code size"),
          Push(Test(P.callInLoop, code), "optimizations",
               "- Function calls in loops - consider inlining for hot paths"),
          Push(Test(P.ioInLoop, code), "hotspots",
               "- I/O operations in loops - major performance bottleneck, batch operations"),
          Push(Includes(code, "std.io.getStdOut().print")
               /\ ~Includes(code, "BufferedWriter"),
               "optimizations",
               "- Unbuffered output - use std.io.BufferedWriter for better performance"),
          Push(Includes(code, "@branchHint"), "compiletimeOptimizations",
               "U+2713 Advanced: Using branch hints for optimization"),
          PushCount(ifElseChains, 3, "optimizations",
               "- Long if-else chain (",
               ") - switch statement may be faster"),
          Push(Includes(code, "f32") \/ Includes(code, "f64"), "optimizations",
               "- Floating point operations - consider @setFloatMode() for performance"),
          Push(Test(P.floatMath, code) /\ Includes(code, "round"),
               "optimizations",
               "- Floating point with rounding - consider integer arithmetic where possible"),
          Push(Includes(code, "struct {") /\ Test(P.byteField, code),
               "memoryEfficiency",
               "- Small fields in structs - consider packing for cache efficiency"),
          Push(Test(P.twoIndexes, code), "optimizations",
               "- Multi-dimensional array access - consider access pattern optimization"),
          Push(Includes(code, "!") /\ Includes(code, "catch"), "optimizations",
               "- Error unions - use @errorReturnTrace(null) in release builds"),
          Push(Includes(code, "?") /\ Includes(code, "orelse"), "optimizations",
               "- Optional types - null checks have minimal overhead in Zig"),
          Push(~Includes(code, "std.time"), "benchmarkSuggestions",
               "- Add timing measurements with std.time.nanoTimestamp()"),
          PushAll("benchmarkSuggestions",
            <<"- Use 'zig build -Doptimize=ReleaseFast' for production benchmarks",
              "- Consider 'zig build -Dcpu=native' for target-specific optimization",
              "- Profile with 'perf record' on Linux for detailed analysis">>),
          PushAll("compiletimeOptimizations",
            <<"- Use '--strip' flag for smaller binaries in production",
              "- Consider '--release=safe' for optimized builds with safety checks">>) >>)
  IN PerformanceReport(code, pushes)

\* result || message
OrDefaultNever(result, message) == result
OrDefault(result, message) == IF result # "" THEN result ELSE message

\* the patterns of analyzeConcurrency, analyzeMetaprogramming,
\* analyzeTesting and analyzeCodeMetrics
AspectPatterns ==
  [ \* /var\s+\w+\s*:/g
    globalVars |->
      <<Lit("var"), Some(In(Blank)), Some(In(Word)), Many(In(Blank)), Lit(":")>>,
    \* /var\s+\w+.*=.*\w+.*\+\+/
    increment |->
      <<Lit("var"), Some(In(Blank)), Some(In(Word)), Many(Dot), Lit("="),
        Many(Dot), Some(In(Word)), Many(Dot), Lit("++")>>,
    \* /comptime/g
    comptime |-> <<Lit("comptime")>>,
    \* /comptime\s+\w+\s*:\s*type/
    typeParameter |->
      <<Lit("comptime"), Some(In(Blank)), Some(In(Word)), Many(In(Blank)),
        Lit(":"), Many(In(Blank)), Lit("type")>>,
    \* /\d+\s*[+\-*]/g
    constantExpressions |->
      <<Some(In(Digit)), Many(In(Blank)), In({"+", "-", "*"})>>,
    \* /test\s+"[^"]*"/g
    tests |->
      <<Lit("test"), Some(In(Blank)), Lit("\""), Many(NotIn({"\""})), Lit("\"")>>,
    \* /fn\s+\w+/g
    functions |-> <<Lit("fn"), Some(In(Blank)), Some(In(Word))>>,
    \* /\b(if|switch|while|for)\b/g
    conditionals |->
      <<WordBoundary,
        Either(<< <<Lit("if")>>, <<Lit("switch")>>, <<Lit("while")>>,
                  <<Lit("for")>> >>),
        WordBoundary>>,
    \* /pub\s+fn/g
    publicFns |-> <<Lit("pub"), Some(In(Blank)), Lit("fn")>>,
    \* /pub\s+const\s+\w+\s*=\s*(?:struct|enum|union)/g
    publicTypes |->
      <<Lit("pub"), Some(In(Blank)), Lit("const"), Some(In(Blank)),
        Some(In(Word)), Many(In(Blank)), Lit("="), Many(In(Blank)),
        Either(<< <<Lit("struct")>>, <<Lit("enum")>>, <<Lit("union")>> >>)>> ]

\* the object literal {a, b, c} of arrays that formatAnalysisResults gets
SectionsOf(pushes, names) ==
  [i \in DOMAIN names |-> [name |-> names[i], items |-> Held(pushes, names[i])]]

\* ZigStyleChecker.analyzeConcurrency(code)
analyzeConcurrency(code) ==
  LET globalVars == Len(MatchAll(AspectPatterns.globalVars, code))
      async == Includes(code, "async") \/ Includes(code, "await")
      pushes ==
        Flatten(<<
          Push(async, "patterns",
               "U+2713 Using async/await for concurrent programming"),
          Push(async /\ ~Includes(code, "suspend") /\ ~Includes(code, "resume"),
               "recommendations",
               "- Consider explicit suspend/resume for fine-grained async control"),
          Push(Includes(code, "std.Thread"), "patterns",
               "U+2713 Multi-threading implementation detected"),
          Push(Includes(code, "std.Thread") /\ ~Includes(code, "Mutex")
               /\ ~Includes(code, "Atomic"),
               "issues",
               "- Multi-threading without synchronization primitives - race condition risk"),
          Push(Includes(code, "std.Thread.Mutex"), "patterns",
               "U+2713 Using mutexes for thread synchronization"),
          Push(Includes(code, "std.atomic"), "patterns",
               "U+2713 Using atomic operations for lock-free programming"),
          Push(Includes(code, "std.Thread.Condition"), "patterns",
               "U+2713 Advanced: Using condition variables for thread coordination"),
          Push(globalVars > 0 /\ Includes(code, "std.Thread"), "issues",
               "- " \o ToString(globalVars)
               \o " global variables in multi-threaded context - ensure thread safety"),
          Push(Test(AspectPatterns.increment, code) /\ Includes(code, "std.Thread"),
               "issues",
               "- Potential data race: non-atomic increment operations") >>)
      result == formatAnalysisResults("Concurrency Analysis",
                  SectionsOf(pushes, <<"issues", "recommendations", "patterns">>))
  IN OrDefault(result, "U+2705 No concurrency patterns detected")

\* ZigStyleChecker.analyzeMetaprogramming(code)
analyzeMetaprogramming(code) ==
  LET comptimeCount == Len(MatchAll(AspectPatterns.comptime, code))
      constantExpressions == Len(MatchAll(AspectPatterns.constantExpressions, code))
      pushes ==
        Flatten(<<
          PushCount(comptimeCount, 0, "advanced",
               "U+2713 Excellent: ",
               " comptime evaluations for compile-time optimization"),
          Push(Includes(code, "@TypeOf") \/ Includes(code, "@typeInfo"),
               "advanced",
               "U+2713 Advanced: Using type reflection for metaprogramming"),
          Push(Includes(code, "@fieldParentPtr") \/ Includes(code, "@offsetOf"),
               "advanced", "U+2713 Expert: Low-level type introspection"),
          Push(Includes(code, "anytype"), "advanced",
               "U+2713 Using generic programming with anytype parameters"),
          Push(Includes(code, "anytype") /\ ~Includes(code, "@TypeOf"),
               "suggestions",
               "- Consider type constraints with @TypeOf for better error messages"),
          Push(Includes(code, "@compileError"), "advanced",
               "U+2713 Using compile-time error generation"),
          Push(Includes(code, "@compileLog"), "suggestions",
               "- Remove @compileLog statements before production"),
          Push(Test(AspectPatterns.typeParameter, code), "advanced",
               "U+2713 Expert: Compile-time type generation"),
          Push(constantExpressions > 0 /\ ~Includes(code, "comptime"),
               "opportunities",
               "- " \o ToString(constantExpressions)
               \o " constant expressions could use comptime evaluation") >>)
      result == formatAnalysisResults("Metaprogramming Analysis",
                  SectionsOf(pushes, <<"advanced", "suggestions", "opportunities">>))
  IN OrDefault(result,
       "U+2705 Basic metaprogramming - consider advanced patterns for optimization")

\* ZigStyleChecker.analyzeTesting(code)
analyzeTesting(code) ==
  LET testCount == Len(MatchAll(AspectPatterns.tests, code))
      pushes ==
        Flatten(<<
          IF testCount > 0
          THEN Push(TRUE, "strengths",
                    "U+2713 " \o ToString(testCount) \o " tests present")
          ELSE Push(TRUE, "gaps",
                    "- No tests detected - add comprehensive test coverage"),
          IF Includes(code, "testing.expect")
          THEN Push(TRUE, "strengths", "U+2713 Using proper test assertions")
          ELSE Push(testCount > 0, "gaps",
                    "- Tests without assertions - add testing.expect* calls"),
          IF Includes(code, "testing.expectError")
          THEN Push(TRUE, "strengths", "U+2713 Testing error conditions")
          ELSE Push(Includes(code, "!"), "suggestions",
                    "- Add error condition testing with testing.expectError"),
          Push(Includes(code, "edge") \/ Includes(code, "boundary"),
               "strengths", "U+2713 Edge case testing detected"),
          Push(Includes(code, "std.time") /\ Includes(code, "test"),
               "strengths", "U+2713 Performance testing present") >>)
      result == formatAnalysisResults("Testing Analysis",
                  SectionsOf(pushes, <<"strengths", "gaps", "suggestions">>))
  IN OrDefault(result, "U+2705 No testing patterns analyzed")

\* ZigStyleChecker.analyzeBuildSystem(code)
analyzeBuildSystem(code) ==
  LET pushes ==
        Flatten(<<
          Push(Includes(code, "@import(\"build"), "insights",
               "U+2713 Build system integration detected"),
          Push(Includes(code, "@import(\"builtin\")"), "insights",
               "U+2713 Platform-aware compilation"),
          Push(Includes(code, "@import(\"config\")")
               \/ Includes(code, "build_options"),
               "insights", "U+2713 Using build-time configuration"),
          Push(Includes(code, "builtin.target") \/ Includes(code, "builtin.os"),
               "insights", "U+2713 Cross-compilation support") >>)
      result == formatAnalysisResults("Build System Analysis",
                  SectionsOf(pushes, <<"insights", "recommendations">>))
  IN OrDefault(result, "U+2705 No build system patterns detected")

\* ZigStyleChecker.analyzeInterop(code)
analyzeInterop(code) ==
  LET pushes ==
        Flatten(<<
          Push(Includes(code, "@cImport"), "patterns",
               "U+2713 C library integration with @cImport"),
          Push(Includes(code, "@cImport") /\ ~Includes(code, "std.c."),
               "suggestions",
               "- Consider using std.c namespace for standard C functions"),
          Push(Includes(code, "extern"), "patterns",
               "U+2713 External function declarations"),
          Push(Includes(code, "export"), "patterns",
               "U+2713 Exporting functions for external use"),
          Push(Includes(code, "callconv(.C)"), "patterns",
               "U+2713 Explicit C calling convention"),
          Push(Includes(code, "extern struct") \/ Includes(code, "packed struct"),
               "patterns", "U+2713 C-compatible struct layout"),
          Push(Includes(code, "@cImport") /\ ~Includes(code, "try"), "warnings",
               "- C functions may fail - consider error handling") >>)
      result == formatAnalysisResults("Interoperability Analysis",
                  SectionsOf(pushes, <<"patterns", "warnings", "suggestions">>))
  IN OrDefault(result, "U+2705 No interoperability patterns detected")

\* the quotient itself with one decimal, not multiplied by 100
FractionFixed1(count, total) ==
  LET tenths == (20 * count + total) \div (2 * total)
  IN ToString(tenths \div 10) \o "." \o ToString(tenths % 10)
\* (x * 100).toFixed(1) of the quotient x of two small counts: the tenths,
\* the half rounded up, with one decimal
PercentFixed1(count, total) ==
  LET tenths == (2000 * count + total) \div (2 * total)
  IN ToString(tenths \div 10) \o "." \o ToString(tenths % 10)

\* ZigStyleChecker.analyzeCodeMetrics(code)
analyzeCodeMetrics(code) ==
  LET lines == LinesOf(code)
      IsComment(line) ==
        Len(Trim(line)) >= 2 /\ SubSeq(Trim(line), 1, 2) = "//"
      totalLines == Len(lines)
      codeLines ==
        Cardinality({i \in DOMAIN lines :
                       Trim(lines[i]) # "" /\ ~IsComment(lines[i])})
      commentLines == Cardinality({i \in DOMAIN lines : IsComment(lines[i])})
      functions == Len(MatchAll(AspectPatterns.functions, code))
      \* Math.round(codeLines / functions.length)
      avgLinesPerFunction == (2 * codeLines + functions) \div (2 * functions)
      conditionals == Len(MatchAll(AspectPatterns.conditionals, code))
      \* Math.floor(conditionals / Math.max(functions.length, 1))
      complexity == conditionals \div (IF functions > 1 THEN functions ELSE 1)
      publicFns == Len(MatchAll(AspectPatterns.publicFns, code))
      publicTypes == Len(MatchAll(AspectPatterns.publicTypes, code))
      pushes ==
        Flatten(<<
          PushAll("metrics",
            <<"- Total lines: " \o ToString(totalLines),
              "- Code lines: " \o ToString(codeLines),
              "- Comment lines: " \o ToString(commentLines),
              "- Documentation ratio: "
              \o PercentFixed1(commentLines, totalLines) \o "%",
              "- Function count: " \o ToString(functions)>>),
          IF functions > 0
          THEN Push(TRUE, "metrics",
                    "- Average lines per function: "
                    \o ToString(avgLinesPerFunction))
               \o Push(avgLinesPerFunction > 50, "concerns",
                       "- Large functions detected - consider decomposition")
          ELSE <<>>,
          Push(TRUE, "metrics",
               "- Cyclomatic complexity: ~" \o ToString(complexity)
               \o " per function"),
          Push(complexity > 10, "concerns",
               "- High complexity - consider simplifying control flow"),
          PushAll("metrics",
            <<"- Public functions: " \o ToString(publicFns),
              "- Public types: " \o ToString(publicTypes)>>) >>)
      result == formatAnalysisResults("Code Metrics",
                  SectionsOf(pushes, <<"metrics", "concerns">>))
  IN OrDefault(result, "U+2705 Code metrics within reasonable bounds")

\* ZigStyleChecker.analyzeModernZigPatterns(code)
analyzeModernZigPatterns(code) ==
  LET initializer ==
        Includes(code, ".{ .path = ") \/ Includes(code, ".{ .name = ")
      pushes ==
        Flatten(<<
          Push(Includes(code, "b.path("), "modern",
               "U+2713 Using modern Zig 0.15.2+ b.path() for file references"),
          Push(Includes(code, "root_module.addImport("), "modern",
               "U+2713 Using modern Zig 0.15.2+ module system with root_module.addImport()"),
          IF ~Includes(code, "b.path(")
          THEN Push(initializer, "upgrades",
                    "- Upgrade to Zig 0.15.2+: use b.path() instead of .{ .path = }")
          ELSE Push(initializer, "modern",
                    "U+2713 Using modern struct initialization syntax"),
          Push(Includes(code, "b.addExecutable(.{"), "modern",
               "U+2713 Modern build.zig API"),
          Push(Includes(code, "setTarget(") \/ Includes(code, "setBuildMode("),
               "deprecations",
               "- Update to Zig 0.12+ build API: use .target and .optimize parameters"),
          Push(Includes(code, "std.build.Builder"), "deprecations",
               "- Replace std.build.Builder with *std.Build"),
          Push(Includes(code, ".addModule(") /\ ~Includes(code, "root_module"),
               "deprecations",
               "- Upgrade to Zig 0.15.2+: use .root_module.addImport() instead of .addModule()"),
          Push(Includes(code, "std.fmt.allocPrintZ"), "upgrades",
               "- Consider std.fmt.allocPrint with explicit null termination") >>)
      result == formatAnalysisResults("Modern Zig Analysis",
                  SectionsOf(pushes, <<"modern", "upgrades", "deprecations">>))
  IN OrDefault(result, "U+2705 Code uses modern Zig patterns")

(***************************************************************************)
(* get_recommendations                                                     *)
(***************************************************************************)
\* the sections of the report and the classifier each one shows (the
\* symbols before the titles are left out)
AnalysisSections ==
  << <<"Style and Conventions", "analyzeCodeStyle">>,
     <<"Design Patterns & Architecture", "analyzePatterns">>,
     <<"Safety & Security Analysis", "analyzeSafety">>,
     <<"Performance Analysis", "analyzePerformance">>,
     <<"Concurrency & Threading", "analyzeConcurrency">>,
     <<"Metaprogramming & Compile-time", "analyzeMetaprogramming">>,
     <<"Testing & Quality Assurance", "analyzeTesting">>,
     <<"Build System Integration", "analyzeBuildSystem">>,
     <<"Interoperability", "analyzeInterop">>,
     <<"Code Metrics & Maintainability", "analyzeCodeMetrics">>,
     <<"Modern Zig Patterns (0.12+)", "analyzeModernZigPatterns">> >>

\* ZigStyleChecker[method](code)
ZigStyleChecker(method, code) ==
  CASE method = "analyzeCodeStyle" -> analyzeCodeStyle(code)
    [] method = "analyzePatterns" -> analyzePatterns(code)
    [] method = "analyzeSafety" -> analyzeSafety(code)
    [] method = "analyzePerformance" -> analyzePerformance(code)
    [] method = "analyzeConcurrency" -> analyzeConcurrency(code)
    [] method = "analyzeMetaprogramming" -> analyzeMetaprogramming(code)
    [] method = "analyzeTesting" -> analyzeTesting(code)
    [] method = "analyzeBuildSystem" -> analyzeBuildSystem(code)
    [] method = "analyzeInterop" -> analyzeInterop(code)
    [] method = "analyzeCodeMetrics" -> analyzeCodeMetrics(code)
    [] method = "analyzeModernZigPatterns" -> analyzeModernZigPatterns(code)

\* a report of a classifier is one piece of its line, line feeds included
getRecommendations(code, prompt) ==
  Result(
    <<<<"# Comprehensive Zig Code Analysis">>, <<>>>>
    \o Flatten([i \in DOMAIN AnalysisSections |->
         << <<"## ", AnalysisSections[i][1]>>,
            <<ZigStyleChecker(AnalysisSections[i][2], code)>>,
            <<>> >>])
    \o <<<<"## Best Practices Summary">>,
         <<"- **Memory Management**: Use RAII patterns with defer, prefer arena allocators for batch operations">>,
         <<"- **Error Handling**: Implement comprehensive error unions and proper propagation">>,
         <<"- **Performance**: Leverage comptime evaluation, consider SIMD for data-parallel operations">>,
         <<"- **Safety**: Enable runtime safety in debug builds, use explicit initialization">>,
         <<"- **Testing**: Maintain high test coverage with property-based testing where applicable">>,
         <<"- **Documentation**: Use comprehensive doc comments (//!) for modules and (///) for functions">>,
         <<"- **Modern Patterns**: Adopt Zig 0.12+ syntax and leverage new standard library features">>,
         <<"- **Build System**: Use build.zig.zon for dependency management, support cross-compilation">>,
         <<"- **Code Quality**: Maintain low cyclomatic complexity, follow single responsibility principle">>,
         <<"- **Concurrency**: Use proper synchronization primitives, consider async/await for I/O bound tasks">>,
         <<>>,
         <<"## Advanced Optimization Recommendations">>,
         <<"- **Compile-time Optimization**: Move more computations to comptime where possible">>,
         <<"- **Memory Layout**: Use packed structs for memory-critical applications">>,
         <<"- **SIMD Utilization**: Consider vectorization for mathematical operations">>,
         <<"- **Profile-Guided Optimization**: Use zig build -Doptimize=ReleaseFast -Dcpu=native">>,
         <<"- **Static Analysis**: Integrate additional linting tools in your build pipeline">>,
         <<"- **Fuzzing**: Implement fuzz testing for input validation functions">>,
         <<"- **Benchmarking**: Add performance regression tests for critical paths">>>>
    \o (IF Truthy(prompt)
        THEN <<<<>>,
               <<"## Specific Recommendations for \"", Shown(prompt), "\":">>,
               <<"getSpecificRecommendations", code, Shown(prompt)>>,
               <<"getAdvancedContextRecommendations", code, Shown(prompt)>>>>
        ELSE <<>>))

\* case 'get_recommendations' of the CallToolRequestSchema handler
HandleGetRecommendations(args) ==
  IF ~validateStringParam(args.code)
  THEN [out |-> InvalidParams("code"), trace |-> <<"validateStringParam">>]
  ELSE [out |-> getRecommendations(args.code.v, args.prompt),
        trace |-> <<"validateStringParam", "getRecommendations">>]

\* the request that arrived and what its case returns or throws
Answer(name, hasArgs, args, handled) ==
  /\ call' = [name |-> name, hasArgs |-> hasArgs, args |-> args]
  /\ outcome' = handled.out
  /\ trace' = handled.trace

CallGetRecommendations ==
  /\ phase = "idle"
  /\ \E hasArgs \in BOOLEAN :
     \E code \in IF hasArgs
                 THEN NonStrings \cup {Str(""), Str("const x = 1;"), Str("while (true) {}")}
                 ELSE {Undefined} :
     \E prompt \in IF hasArgs THEN {Undefined, Str(""), Str("performance")}
                   ELSE {Undefined} :
       Answer("get_recommendations", hasArgs,
              [code |-> code, prompt |-> prompt],
              HandleGetRecommendations([code |-> code, prompt |-> prompt]))
  /\ phase' = "done"
  /\ UNCHANGED <<kept, lastIndex>>

(***************************************************************************)
(* The server: handles one call at a time and keeps nothing of it.         *)
(***************************************************************************)
Init ==
  /\ phase = "idle"
  /\ call = NoCall
  /\ outcome = NoOutcome
  /\ trace = <<>>
  /\ kept = NothingKept
  /\ lastIndex = [p \in DOMAIN StaticPatterns |-> 0]

\* the answer leaves with the transport; the server awaits the next request
Reply ==
  /\ phase = "done"
  /\ phase' = "idle"
  /\ call' = NoCall
  /\ outcome' = NoOutcome
  /\ trace' = <<>>
  /\ UNCHANGED <<kept, lastIndex>>

Next ==
  \/ CallOptimizeCode
  \/ CallEstimateComputeUnits
  \/ CallAnalyzeBuildZig
  \/ CallGenerateBuildZig
  \/ CallGenerateBuildZon
  \/ CallGenerateCode
  \/ CallGetRecommendations
  \/ Reply

Spec == Init /\ [][Next]_vars

(***************************************************************************)
(* ZigCodeGenerator.generateZigCode on its own, for every value of         *)
(* CodeGenerationRequirements.                                             *)
(***************************************************************************)
Requirements ==
  [features : SUBSET {keywords.features[i] : i \in DOMAIN keywords.features},
   errorHandling : BOOLEAN, testing : BOOLEAN, performance : BOOLEAN]

CallGenerateZigCode ==
  /\ phase = "idle"
  /\ \E requirements \in Requirements :
       /\ call' = [name |-> "generateZigCode", hasArgs |-> TRUE, args |-> requirements]
       /\ outcome' = Result(generateZigCode(requirements))
       /\ trace' = <<"generateZigCode">>
  /\ phase' = "done"
  /\ UNCHANGED <<kept, lastIndex>>

GenNext ==
  \/ CallGenerateZigCode
  \/ Reply

GenSpec == Init /\ [][GenNext]_vars

(***************************************************************************)
(* The server watched by an observer who writes down one answer of         *)
(* generate_code and lets calls of this and other tools follow.            *)
(***************************************************************************)
\* the calls the observer may write down: a prompt of one word, alone or
\* with a context
KeptPrompts == {Str(Vocabulary[i]) : i \in DOMAIN Vocabulary}
KeptContexts == {Undefined, Str("Handle errors FAST")}

Keep ==
  /\ phase = "done"
  /\ call.name = "generate_code"
  /\ outcome.kind = "result"
  /\ call.args.prompt \in KeptPrompts
  /\ call.args.context \in KeptContexts
  /\ kept = NothingKept
  /\ kept' = [call |-> call, outcome |-> outcome]
  /\ UNCHANGED <<phase, call, outcome, trace, lastIndex>>

ObservedNext ==
  \/ CallGenerateCode
  \/ CallGenerateBuildZig
  \/ CallGenerateBuildZon
  \/ Keep
  \/ Reply

ObservedSpec == Init /\ [][ObservedNext]_vars

(***************************************************************************)
(* The eleven classifiers of ZigStyleChecker, each on every text of at     *)
(* most MaxCodeLines lines of a sample program.                            *)
(***************************************************************************)
SampleLines ==
  << "//! module doc",
     "const std = @import(\"std\");",
     "pub fn doThing(a: u8,b: u8) !void {",
     "    var l = std.ArrayList(u8).init(a);",
     "    defer l.deinit();",
     "    for (items) { total = total + items[i]; }",
     "    while (true) { x = try foo(1); return x; }",
     "test \"basic\" { try testing.expect(a == 1); }",
     "var n: u8 = undefined; // TODO std.Thread",
     "const c = @cImport(@cInclude(\"stdio.h\"));",
     "comptime T: type, x: anytype",
     "\tconst buf = allocator.alloc(u8, 8);  " >>
CodeTexts == {JoinWith(sel, "\n") : sel \in SubSeqsUpTo(SampleLines, MaxCodeLines)}
Classifiers == {AnalysisSections[i][2] : i \in DOMAIN AnalysisSections}

CallClassifier ==
  /\ phase = "idle"
  /\ \E method \in Classifiers : \E code \in CodeTexts :
       /\ call' = [name |-> method, hasArgs |-> TRUE, args |-> [code |-> code]]
       /\ outcome' = Result(ZigStyleChecker(method, code))
       /\ trace' = <<method>>
  /\ phase' = "done"
  /\ UNCHANGED <<kept, lastIndex>>

ClassifierNext ==
  \/ CallClassifier
  \/ Reply

ClassifierSpec == Init /\ [][ClassifierNext]_vars

(***************************************************************************)
(* formatAnalysisResults on every findings object.                         *)
(***************************************************************************)
\* titles, bucket names and findings the classifiers hand over
Titles == {"Concurrency Analysis"}
BucketNames == {"issues", "recommendations", "patterns", "metrics"}
Findings ==
  {"- Potential data race: non-atomic increment operations",
   "U+2713 Using mutexes for thread synchronization"}
RECURSIVE FindingLists(_)
FindingLists(n) ==
  IF n = 0 THEN {<<>>}
  ELSE LET shorter == FindingLists(n - 1)
       IN shorter \cup {Append(items, f) : items \in {l \in shorter : Len(l) = n - 1},
                                           f \in Findings}
RECURSIVE SectionsUpTo(_)
\* objects of at most n properties: no name twice
SectionsUpTo(n) ==
  IF n = 0 THEN {<<>>}
  ELSE LET fewer == SectionsUpTo(n - 1)
       IN fewer \cup
          {Append(s, [name |-> nm, items |-> items]) :
             s \in {l \in fewer : Len(l) = n - 1},
             nm \in BucketNames,
             items \in FindingLists(MaxFindings)}
RECURSIVE NamesOf(_)
NamesOf(sections) ==
  IF sections = <<>> THEN {} ELSE {Head(sections).name} \cup NamesOf(Tail(sections))
SectionObjects ==
  {s \in SectionsUpTo(MaxBuckets) : Cardinality(NamesOf(s)) = Len(s)}

CallFormatAnalysisResults ==
  /\ phase = "idle"
  /\ \E title \in Titles : \E sections \in SectionObjects :
       /\ call' = [name |-> "formatAnalysisResults", hasArgs |-> TRUE,
                   args |-> [title |-> title, sections |-> sections]]
       /\ outcome' = Result(formatAnalysisResults(title, sections))
       /\ trace' = <<"formatAnalysisResults">>
  /\ phase' = "done"
  /\ UNCHANGED <<kept, lastIndex>>

FormatNext ==
  \/ CallFormatAnalysisResults
  \/ Reply

FormatSpec == Init /\ [][FormatNext]_vars

(***************************************************************************)
(* The requests of the protocol: the two listings, tools/call with any     *)
(* name, resources/read with any URI (index.ts).  What the network answers *)
(* to axios.get is an input of a read.                                     *)
(***************************************************************************)
\* new McpError(code, message); the message in its pieces
McpError(code, message) == [kind |-> "McpError", code |-> code, message |-> message]
\* { contents: [{ uri, mimeType, text }] }
Contents(uri, mimeType, text) ==
  [kind |-> "contents", uri |-> uri, mimeType |-> mimeType, text |-> text]

\* a listing that names a tool no case handles
ListToolsAndOneMore ==
  <<"optimize_code", "estimate_compute_units", "generate_code", "get_recommendations",
    "generate_build_zig", "analyze_build_zig", "generate_build_zon", "list_tools">>
\* ListToolsRequestSchema handler: the names of tools, in order
ListTools ==
  <<"optimize_code", "estimate_compute_units", "generate_code", "get_recommendations",
    "generate_build_zig", "analyze_build_zig", "generate_build_zon">>
\* ListResourcesRequestSchema handler: uri and mimeType of resources, in order
ListResources ==
  <<[uri |-> "zig://docs/language-reference", mimeType |-> "text/html"],
    [uri |-> "zig://docs/std-lib", mimeType |-> "text/html"],
    [uri |-> "zig://repos/popular", mimeType |-> "application/json"],
    [uri |-> "zig://build/best-practices", mimeType |-> "text/markdown"],
    [uri |-> "zig://build/troubleshooting", mimeType |-> "text/markdown"],
    [uri |-> "zig://examples/build-configs", mimeType |-> "text/plain"]>>

\* a catch that drops the cause
errorMessageDropped(error) == "Unknown error"
\* error instanceof Error ? error.message : 'Unknown error'
errorMessage(error) == IF error.isError THEN error.message ELSE "Unknown error"

\* what axios.get comes back with: a response with its data, or a rejection
Resolved(data) == [ok |-> TRUE, data |-> data, error |-> [isError |-> TRUE, message |-> ""]]
Rejected(message) ==
  [ok |-> FALSE, data |-> Undefined, error |-> [isError |-> TRUE, message |-> message]]
\* no request went out
NoResponse == Resolved(Undefined)

\* fetchZigDocs: one axios.get of index.html or std.html, the data returned
\* as it came
fetchZigDocs(section, response) ==
  [out |-> IF response.ok THEN response.data
           ELSE McpError("InternalError",
                         <<"Failed to fetch Zig docs: ", errorMessage(response.error)>>),
   threw |-> ~response.ok,
   trace |-> <<"fetchZigDocs",
               "axios.get https://ziglang.org/documentation/master/"
                 \o (IF section = "language" THEN "index" ELSE "std") \o ".html">>]

\* JSON.stringify of a string none of whose characters needs an escape
JsonString(s) == "\"" \o s \o "\""
\* repo => ({ name, description, stars, url }) and its lines in
\* JSON.stringify(repos, null, 2)
RepoLines(repo, last) ==
  << <<"  {">>,
     <<"    \"name\": ", JsonString(repo.full_name), ",">>,
     <<"    \"description\": ",
       JsonString(IF Truthy(repo.description) THEN repo.description.v
                  ELSE "No description available"), ",">>,
     <<"    \"stars\": ", repo.stargazers_count, ",">>,
     <<"    \"url\": ", JsonString(repo.html_url)>>,
     <<IF last THEN "  }" ELSE "  },">> >>
\* JSON.stringify(repos, null, 2)
StringifyRepos(items) ==
  IF items = <<>> THEN <<<<"[]">>>>
  ELSE <<<<"[">>>>
       \o Flatten([i \in DOMAIN items |-> RepoLines(items[i], i = Len(items))])
       \o <<<<"]">>>>

\* fetchPopularRepos: one axios.get; response.data.items.map throws a
\* TypeError inside the try when the data has no items
fetchPopularRepos(response) ==
  [out |-> IF ~response.ok
           THEN McpError("InternalError",
                         <<"Failed to fetch popular repos: ",
                           errorMessage(response.error)>>)
           ELSE IF response.data.t # "search"
           THEN McpError("InternalError",
                         <<"Failed to fetch popular repos: ",
                           errorMessage([isError |-> TRUE,
                                         message |-> "Cannot read properties of undefined (reading 'map')"])>>)
           ELSE [t |-> "lines", v |-> StringifyRepos(response.data.v)],
   threw |-> ~response.ok \/ response.data.t # "search",
   trace |-> <<"fetchPopularRepos", "axios.get https://api.github.com/search/repositories">>]

\* ZigBuildSystemHelper.getBuildSystemBestPractices(): a constant text,
\* here its first line
getBuildSystemBestPractices == <<<<"# Zig Build System Best Practices (Zig 0.14+)">>>>
\* ZigBuildSystemHelper.getBuildTroubleshooting(): a constant text, here its
\* first line
getBuildTroubleshooting == <<<<"# Zig Build System Troubleshooting">>>>

\* generateBuildExamples: the three configurations
BuildExamples ==
  <<[name |-> "Basic Executable",
     description |-> "Simple executable with modern build patterns",
     config |-> [zigVersion |-> Str("0.12.0"), dependencies |-> <<>>]],
    [name |-> "Library with Dependencies",
     description |-> "Library project with external dependencies",
     config |-> [zigVersion |-> Str("0.12.0"),
                 dependencies |-> <<[name |-> "args",
                                     path |-> "https://github.com/MasterQ32/zig-args"]>>]],
    [name |-> "Cross-platform Application",
     description |-> "Application configured for multiple platforms",
     config |-> [zigVersion |-> Str("0.12.0"), dependencies |-> <<>>]]>>
\* the template of one example, and '\n---\n' before each but the first
ExampleLines(example, first) ==
  (IF first THEN <<>> ELSE <<<<"---">>>>)
  \o <<<<>>, <<"## ", example.name>>, <<example.description>>, <<>>, <<Fence, "zig">>>>
  \o ZigBuildSystemHelper_generateBuildZig(example.config)
  \o <<<<Fence>>, <<>>>>
generateBuildExamples ==
  Flatten([i \in DOMAIN BuildExamples |-> ExampleLines(BuildExamples[i], i = 1)])

\* return { contents: [...] } when the awaited text came, the error thrown
\* on otherwise
Served(uri, mimeType, fetched) ==
  [out |-> IF fetched.threw THEN fetched.out
           ELSE Contents(uri, mimeType,
                         IF fetched.out.t = "lines" THEN fetched.out.v
                         ELSE <<<<fetched.out.v>>>>),
   trace |-> fetched.trace]
\* a text that needs no request
Static(lines, method) == [out |-> [t |-> "lines", v |-> lines], threw |-> FALSE,
                          trace |-> <<method>>]

\* ReadResourceRequestSchema handler: switch (uri); catch: log and rethrow
ReadResourceRequest(uri, response) ==
  CASE uri = "zig://docs/language-reference" ->
         Served(uri, "text/html", fetchZigDocs("language", response))
    [] uri = "zig://docs/std-lib" ->
         Served(uri, "text/html", fetchZigDocs("std", response))
    [] uri = "zig://repos/popular" ->
         Served(uri, "application/json", fetchPopularRepos(response))
    [] uri = "zig://build/best-practices" ->
         Served(uri, "text/markdown",
                Static(getBuildSystemBestPractices, "getBuildSystemBestPractices"))
    [] uri = "zig://build/troubleshooting" ->
         Served(uri, "text/markdown",
                Static(getBuildTroubleshooting, "getBuildTroubleshooting"))
    [] uri = "zig://examples/build-configs" ->
         Served(uri, "text/plain", Static(generateBuildExamples, "generateBuildExamples"))
    [] OTHER ->
         [out |-> McpError("InvalidRequest", <<"Resource not found: ", uri>>),
          trace |-> <<>>]

\* CallToolRequestSchema handler: switch (name); catch: log and rethrow
CallToolRequest(name, hasArgs, args) ==
  CASE name = "optimize_code" -> HandleOptimizeCode(args)
    [] name = "estimate_compute_units" -> HandleEstimateComputeUnits(args)
    [] name = "generate_code" -> HandleGenerateCode(args)
    [] name = "get_recommendations" -> HandleGetRecommendations(args)
    [] name = "generate_build_zig" -> HandleGenerateBuildZig(hasArgs, args)
    [] name = "analyze_build_zig" -> HandleAnalyzeBuildZig(args)
    [] name = "generate_build_zon" -> HandleGenerateBuildZon(hasArgs, args)
    [] OTHER -> [out |-> McpError("MethodNotFound", <<"Unknown tool: ", name>>),
                 trace |-> <<>>]

\* names a client may ask for: the listed ones and others
ToolNames ==
  {ListTools[i] : i \in DOMAIN ListTools}
  \cup {"", "optimize", "Optimize_Code", "optimize_code ", "list_tools", "resources/read"}
\* no arguments: every property reads undefined
NoArguments ==
  [code |-> Undefined, optimizationLevel |-> Undefined, prompt |-> Undefined,
   context |-> Undefined, buildZigContent |-> Undefined, zigVersion |-> Undefined,
   dependencies |-> Undefined]
\* a code argument, written the way the tool of that name is given to read it
CodeArguments(name) ==
  {Undefined, Num("0")}
  \cup (CASE name = "optimize_code" -> {Str(OptProgram[3])}
          [] name = "estimate_compute_units" -> {Str(t) : t \in StmtListsUpTo(1)}
          [] OTHER -> {Str("while (true) {}")})
\* arguments objects of a call, every property of every tool in each
ToolArguments(name) ==
  [code : CodeArguments(name),
   optimizationLevel : {Undefined, Str("ReleaseFast")},
   prompt : {Undefined, Str("performance")},
   context : {Undefined},
   buildZigContent : {Undefined, Str(<<SampleBuildZig[3]>>)},
   zigVersion : {Undefined},
   dependencies : {Undefined}]
\* URIs a client may ask for: the listed ones and others
Uris ==
  {ListResources[i].uri : i \in DOMAIN ListResources}
  \cup {"", "zig://docs", "zig://docs/std-lib/", "ZIG://repos/popular", "zig://repos"}
\* the repositories of a search result
Repos ==
  {[full_name |-> "ziglang/zig", description |-> Str("The Zig compiler"),
    stargazers_count |-> "30000", html_url |-> "https://github.com/ziglang/zig"],
   [full_name |-> "oven-sh/bun", description |-> Null,
    stargazers_count |-> "70000", html_url |-> "https://github.com/oven-sh/bun"]}
\* what the network may answer to the request of a read
Responses ==
  {Resolved(Str("<html>Zig</html>")), Resolved(Str("")), Resolved(Obj)}
  \cup {Resolved([t |-> "search", v |-> items]) : items \in SeqsUpTo(Repos, MaxRepos)}
  \cup {Rejected(message) :
          message \in {"timeout of 10000ms exceeded",
                       "Request failed with status code 403",
                       "getaddrinfo ENOTFOUND ziglang.org", ""}}
\* the URIs whose read goes to the network
Fetched == {"zig://docs/language-reference", "zig://docs/std-lib", "zig://repos/popular"}

\* a request of the protocol and its answer
Serve(method, request, handled) ==
  /\ call' = request
  /\ outcome' = handled.out
  /\ trace' = <<method>> \o handled.trace

CallListTools ==
  /\ phase = "idle"
  /\ Serve("tools/list", NoCall, [out |-> [kind |-> "tools", names |-> ListTools],
                                  trace |-> <<>>])
  /\ phase' = "done"
  /\ UNCHANGED <<kept, lastIndex>>

CallListResources ==
  /\ phase = "idle"
  /\ Serve("resources/list", NoCall,
           [out |-> [kind |-> "resources", resources |-> ListResources], trace |-> <<>>])
  /\ phase' = "done"
  /\ UNCHANGED <<kept, lastIndex>>

CallTool ==
  /\ phase = "idle"
  /\ \E name \in ToolNames : \E hasArgs \in BOOLEAN :
     \E args \in IF hasArgs THEN ToolArguments(name) ELSE {NoArguments} :
       /\ Serve("tools/call", [name |-> name, hasArgs |-> hasArgs, args |-> args],
                CallToolRequest(name, hasArgs, args))
       /\ lastIndex' = IF name = "estimate_compute_units" /\ validateStringParam(args.code)
                       THEN LastIndexAfterAnalyses(args.code.v) ELSE lastIndex
  /\ phase' = "done"
  /\ UNCHANGED kept

CallReadResource ==
  /\ phase = "idle"
  /\ \E uri \in Uris :
     \E response \in IF uri \in Fetched THEN Responses ELSE {NoResponse} :
       Serve("resources/read",
             [name |-> "", hasArgs |-> TRUE, args |-> [uri |-> uri, response |-> response]],
             ReadResourceRequest(uri, response))
  /\ phase' = "done"
  /\ UNCHANGED <<kept, lastIndex>>

ProtocolNext ==
  \/ CallListTools
  \/ CallListResources
  \/ CallTool
  \/ CallReadResource
  \/ Reply

ProtocolSpec == Init /\ [][ProtocolNext]_vars

(***************************************************************************)
(* calculateNestedLoopDepth line by line: the three locals after each turn *)
(* of its loop.  The trace keeps, for each line read, the line and the     *)
(* locals between the two if statements of the turn.                       *)
(***************************************************************************)
ScanLines ==
  {"for (a) {", "    while (b) {", "}", "x = 1;", "for (c) |v| { s += v; }", "} else {"}
ScanTexts == {JoinWith(q, "\n") : q \in SeqsUpTo(ScanLines, MaxScanLines)}

\* const lines = code.split('\n'), the locals at their initial values
StartScan ==
  /\ phase = "idle"
  /\ \E code \in ScanTexts :
       /\ call' = [name |-> "calculateNestedLoopDepth", hasArgs |-> TRUE,
                   args |-> [code |-> Str(code)]]
       /\ outcome' = [kind |-> "scan", lines |-> LinesOf(code), locals |-> ScanStart]
  /\ trace' = <<>>
  /\ phase' = "scanning"
  /\ UNCHANGED <<kept, lastIndex>>

\* for (const line of lines) { ... }: one turn
NextLine ==
  /\ phase = "scanning"
  /\ outcome.lines # <<>>
  /\ outcome' = [outcome EXCEPT !.lines = Tail(@),
                                !.locals = ScanLine(@, Head(outcome.lines))]
  /\ trace' = Append(trace,
                     [line |-> Head(outcome.lines),
                      between |-> LoopOpened(outcome.locals,
                                             Test(PerformancePatterns.loopHead,
                                                  Head(outcome.lines)))])
  /\ UNCHANGED <<phase, call, kept, lastIndex>>

\* return maxDepth
ReturnDepth ==
  /\ phase = "scanning"
  /\ outcome.lines = <<>>
  /\ outcome' = [kind |-> "depth", value |-> outcome.locals.maxDepth,
                 locals |-> outcome.locals]
  /\ phase' = "done"
  /\ UNCHANGED <<call, trace, kept, lastIndex>>

ScanNext ==
  \/ StartScan
  \/ NextLine
  \/ ReturnDepth
  \/ Reply

ScanSpec == Init /\ [][ScanNext]_vars

(***************************************************************************)
(* ZigCodeGenerator.parseRequirements on its own: a caller asks once, the  *)
(* observer writes the answer down, and the caller asks again with text    *)
(* appended to the prompt, with a context added, or with text appended to  *)
(* the context.                                                            *)
(***************************************************************************)
Pieces == {"struct", "TEST ", "err", "or"}
ParseTexts == {JoinWith(q, "") : q \in SeqsUpTo(Pieces, MaxPieces)}
ParseContexts == {Undefined, Str("")} \cup {Str(p) : p \in Pieces}

\* parseRequirements(prompt, context) called and returned
Parsed(prompt, context) ==
  /\ call' = [name |-> "parseRequirements", hasArgs |-> TRUE,
              args |-> [prompt |-> prompt, context |-> context]]
  /\ outcome' = [kind |-> "requirements", v |-> parseRequirements(prompt, context)]
  /\ trace' = <<"parseRequirements">>
  /\ phase' = "done"

CallParseRequirements ==
  /\ phase = "idle"
  /\ kept = NothingKept
  /\ \E prompt \in ParseTexts : \E context \in ParseContexts :
       Parsed(Str(prompt), context)
  /\ UNCHANGED <<kept, lastIndex>>

KeepRequirements ==
  /\ phase = "done"
  /\ call.name = "parseRequirements"
  /\ kept = NothingKept
  /\ kept' = [call |-> call, outcome |-> outcome]
  /\ UNCHANGED <<phase, call, outcome, trace, lastIndex>>

\* the context with text appended; '' appended to no context is no context
Appended(context, more) ==
  IF more = "" THEN context
  ELSE IF IsString(context) THEN Str(context.v \o more)
  ELSE Str(more)

CallParseExtended ==
  /\ phase = "idle"
  /\ kept # NothingKept
  /\ \E more \in Pieces \cup {""} : \E moreContext \in Pieces \cup {""} :
       Parsed(Str(kept.call.args.prompt.v \o more),
              Appended(kept.call.args.context, moreContext))
  /\ UNCHANGED <<kept, lastIndex>>

ParseNext ==
  \/ CallParseRequirements
  \/ KeepRequirements
  \/ CallParseExtended
  \/ Reply

ParseSpec == Init /\ [][ParseNext]_vars

(***************************************************************************)
(* ZigStyleChecker.analyzePerformance on texts of loops: with and without  *)
(* braces, on one line and over several.                                   *)
(***************************************************************************)
LoopLines ==
  {"for (a) |x|", "for (c) |v| { s += v; }", "for (r) |c| { while (c) { n += 1; } }",
   "while (b) {", "}"}
LoopTexts == {JoinWith(q, "\n") : q \in SeqsUpTo(LoopLines, MaxScanLines)}

CallAnalyzePerformance ==
  /\ phase = "idle"
  /\ \E code \in LoopTexts :
       /\ call' = [name |-> "analyzePerformance", hasArgs |-> TRUE,
                   args |-> [code |-> code]]
       /\ outcome' = Result(analyzePerformance(code))
       /\ trace' = <<"analyzePerformance">>
  /\ phase' = "done"
  /\ UNCHANGED <<kept, lastIndex>>

PerformanceNext ==
  \/ CallAnalyzePerformance
  \/ Reply

PerformanceSpec == Init /\ [][PerformanceNext]_vars

(***************************************************************************)
(* Properties.                                                             *)
(***************************************************************************)
Done(tool) == phase = "done" /\ call.name = tool
Returned == outcome.kind = "result"
Range(q) == {q[i] : i \in DOMAIN q}

RECURSIVE LineText(_)
\* the characters of a line
LineText(line) == IF line = <<>> THEN "" ELSE Head(line) \o LineText(Tail(line))
OutputContains(out, needle) ==
  \E i \in DOMAIN out.text : StrIncludes(LineText(out.text[i]), needle)
StartsWith(str, prefix) ==
  Len(str) >= Len(prefix) /\ SubSeq(str, 1, Len(prefix)) = prefix
EndsWith(str, suffix) ==
  Len(str) >= Len(suffix) /\ SubSeq(str, Len(str) - Len(suffix) + 1, Len(str)) = suffix

ReportLabel(out) == out.text[1][2]
BuildModeAdvice(out) == Section(out.text, <<"## Build Mode Specific:">>)

\* C1: for every code string and every optimizationLevel string that is not
\* one of the four members, optimize_code does not throw and returns a
\* report whose mode-specific advice block is the ReleaseSafe advice list.
C1_UnknownLevelFallsBack ==
  (/\ Done("optimize_code")
   /\ IsString(call.args.code)
   /\ IsString(call.args.optimizationLevel)
   /\ call.args.optimizationLevel.v \notin OptimizationLevels)
  => (/\ Returned
      /\ BuildModeAdvice(outcome) = Bullets(buildModeOpts.ReleaseSafe))

\* the parameter each tool requires to be a string
RequiredParam ==
  [optimize_code |-> "code", estimate_compute_units |-> "code",
   get_recommendations |-> "code", generate_code |-> "prompt",
   analyze_build_zig |-> "buildZigContent"]
IsInvalidParams(out) == out.kind = "McpError" /\ out.code = "InvalidParams"

\* C2: for each tool with a required string parameter, a call in which the
\* parameter is absent or not a string fails with InvalidParams naming the
\* parameter, before any analysis or generation has run and without a
\* result; a call in which it is a string, the empty one included, never
\* fails with InvalidParams.
C2_RequiredStringParams ==
  (phase = "done" /\ call.name \in DOMAIN RequiredParam)
  => LET param == RequiredParam[call.name]
         value == call.args[param]
     IN /\ (~call.hasArgs \/ ~IsString(value))
           => (/\ outcome = InvalidParams(param)
               /\ trace = <<"validateStringParam">>
               /\ ~Returned)
        /\ (call.hasArgs /\ IsString(value)) => ~IsInvalidParams(outcome)
C2_Witness ==
  /\ Done("analyze_build_zig")
  /\ call.hasArgs
  /\ call.args.buildZigContent = Num("0")
  /\ outcome = InvalidParams("buildZigContent")

\* C3: every report optimize_code returns is labelled with one of the four
\* members and shows the advice block of that same member; a level whose
\* name is not a member never gets a report under its own name: the call is
\* rejected, or the level is absent and ReleaseSafe stands in the label and
\* in the advice alike.
C3_LabelAndAdviceAgree ==
  (Done("optimize_code") /\ Returned)
  => LET label == ReportLabel(outcome)
         level == call.args.optimizationLevel
     IN /\ label \in OptimizationLevels
        /\ BuildModeAdvice(outcome) = Bullets(buildModeOpts[label])
        /\ level.v \notin OptimizationLevels
           => (Nullish(level) /\ label = "ReleaseSafe")
C3_Witness ==
  /\ Done("optimize_code")
  /\ Returned
  /\ call.args.optimizationLevel = Null
  /\ ReportLabel(outcome) = "ReleaseSafe"
  /\ BuildModeAdvice(outcome) = Bullets(buildModeOpts.ReleaseSafe)

\* the four allocator kinds and the label that names each
AllocatorKinds ==
  << [pattern |-> ReArena, label |-> "Arena-based allocation"],
     [pattern |-> ReFixedBuf, label |-> "Fixed buffer allocation"],
     [pattern |-> ReGpa, label |-> "General purpose allocation"],
     [pattern |-> RePageAlloc, label |-> "Page-based allocation"] >>
KindsMatched(code) ==
  {k \in DOMAIN AllocatorKinds : MatchCount(AllocatorKinds[k].pattern, code) > 0}

\* C4: the allocation-strategy label of estimate_compute_units follows from
\* which of the four allocator kinds (arena, fixed-buffer, general-purpose,
\* page) are matched: none gives the default label, exactly one gives the
\* label that names it, two or more give the mixed-strategy label.
C4_StrategyOfFourKinds ==
  (Done("estimate_compute_units") /\ Returned)
  => LET kinds == KindsMatched(call.args.code.v)
         label == FieldOf(outcome.text, "- Allocation Strategy: ")
     IN /\ kinds = {} => label = "Default allocator usage"
        /\ \A k \in kinds : kinds = {k} => label = AllocatorKinds[k].label
        /\ Cardinality(kinds) >= 2 => label = "Mixed allocation strategy"

RECURSIVE CloseOf(_, _, _)
\* the position of the brace that closes a block, scanning from pos with
\* depth blocks open; 0 when the text ends first
CloseOf(text, pos, depth) ==
  IF pos > Len(text) THEN 0
  ELSE IF text[pos] = "{" THEN CloseOf(text, pos + 1, depth + 1)
  ELSE IF text[pos] = "}"
       THEN IF depth = 1 THEN pos ELSE CloseOf(text, pos + 1, depth - 1)
  ELSE CloseOf(text, pos + 1, depth)
IsLoopAt(text, i) ==
  text[i] \in {"for", "while"} /\ i < Len(text) /\ text[i + 1] = "("
\* a loop whose body, between its braces, holds another loop
SyntacticallyNested(text) ==
  \E i \in DOMAIN text : \E j \in DOMAIN text : \E k \in DOMAIN text :
    /\ IsLoopAt(text, i)
    /\ i < j /\ text[j] = "{" /\ \A m \in (i + 1)..(j - 1) : text[m] # "{"
    /\ j < k /\ IsLoopAt(text, k)
    /\ LET close == CloseOf(text, j + 1, 1) IN close = 0 \/ k < close

\* C5: for every text that holds two syntactically nested loops (whatever
\* other blocks come before the inner loop in the body of the outer one) and
\* no recursion pattern, estimate_compute_units reports the quadratic
\* label, never O(n) and never O(1).
C5_NestedLoopsAreQuadratic ==
  (/\ Done("estimate_compute_units")
   /\ Returned
   /\ SyntacticallyNested(call.args.code.v)
   /\ MatchCount(ReRecursion, call.args.code.v) = 0)
  => FieldOf(outcome.text, "- Estimated Complexity: ") = Quadratic

\* String.prototype.includes on the lines of a file
TextHas(content, needle) == \E i \in DOMAIN content : StrIncludes(content[i], needle)
ModernMarkers ==
  {"standardTargetOptions", "standardOptimizeOption", "addTest", "installArtifact"}

\* C6: analyze_build_zig on a build file that holds all four modern markers
\* and none of the deprecated patterns returns exactly the list of the one
\* message 'Build file follows modern Zig patterns'.
C6_FourMarkersApproved ==
  (/\ Done("analyze_build_zig")
   /\ Returned
   /\ \A n \in ModernMarkers : TextHas(call.args.buildZigContent.v, n)
   /\ \A k \in 1..7 : ~BuildChecks(call.args.buildZigContent.v)[k].on)
  => Recommendations(outcome) = <<FollowsModernPatterns>>

DeprecatedReplacements ==
  { <<"Builder", "Update to new Build API: replace Builder with std.Build">>,
    <<"setTarget", "Use standardTargetOptions() instead of setTarget()">>,
    <<"setBuildMode", "Use standardOptimizeOption() instead of setBuildMode()">> }

\* C7: for every build file that holds 'Builder', the list analyze_build_zig
\* returns includes the recommendation that names std.Build, whatever else
\* the file holds or lacks; likewise for setTarget and setBuildMode with
\* the recommendation of each.
C7_DeprecatedAlwaysReported ==
  (Done("analyze_build_zig") /\ Returned)
  => \A d \in DeprecatedReplacements :
       TextHas(call.args.buildZigContent.v, d[1])
       => d[2] \in Range(Recommendations(outcome))
C7_Witness ==
  /\ Done("analyze_build_zig")
  /\ Returned
  /\ TextHas(call.args.buildZigContent.v, "Builder")
  /\ \A n \in ModernMarkers : TextHas(call.args.buildZigContent.v, n)
  /\ "Update to new Build API: replace Builder with std.Build"
       \in Range(Recommendations(outcome))

\* C8: for every input text the list analyzeBuildZig returns is not empty;
\* its elements follow the fixed order of the checks, each check that
\* triggered giving its recommendation exactly once; the message 'follows
\* modern patterns' is returned exactly when no check triggered, and is then
\* the only element.
C8_ChecksInOrderOrApproval ==
  (Done("analyze_build_zig") /\ Returned)
  => LET checks == BuildChecks(call.args.buildZigContent.v)
         on == {k \in DOMAIN checks : checks[k].on}
         recs == Recommendations(outcome)
         CheckOf(r) == CHOOSE k \in DOMAIN checks : checks[k].rec = r
     IN /\ Len(recs) > 0
        /\ (FollowsModernPatterns \in Range(recs)) <=> (on = {})
        /\ on = {} => recs = <<FollowsModernPatterns>>
        /\ on # {} =>
             /\ Range(recs) = {checks[k].rec : k \in on}
             /\ \A i \in DOMAIN recs : \A j \in DOMAIN recs :
                  i < j => CheckOf(recs[i]) < CheckOf(recs[j])
C8_Witness ==
  /\ Done("analyze_build_zig")
  /\ Returned
  /\ Len(call.args.buildZigContent.v) > 0
  /\ Recommendations(outcome) = <<FollowsModernPatterns>>

\* C9: for every dependency name n, the text of generateBuildZig holds the
\* declaration const n_dep = b.dependency("n" and the link statement
\* exe.linkLibrary(n_dep.artifact("n"));
C9_DependenciesLinked ==
  (Done("generate_build_zig") /\ Returned /\ call.hasArgs
   /\ IsArray(call.args.dependencies))
  => \A n \in Range(call.args.dependencies.v) :
       /\ OutputContains(outcome, "const " \o n \o "_dep = b.dependency(\"" \o n \o "\"")
       /\ OutputContains(outcome,
            "exe.linkLibrary(" \o n \o "_dep.artifact(\"" \o n \o "\"));")

RECURSIVE BlockOpenings(_, _)
\* the positions, from i on, of the lines that open a dependency block
BlockOpenings(text, i) ==
  IF i > Len(text) THEN <<>>
  ELSE (IF StartsWith(LineText(text[i]), "        .")
           /\ EndsWith(LineText(text[i]), " = .{")
        THEN <<i>> ELSE <<>>)
       \o BlockOpenings(text, i + 1)
\* one block per entry, in the order of the list, each under the name of
\* its entry and with the url, if any, that Url requires of the entry
ZonBlocksAre(out, deps, Url(_)) ==
  LET opens == BlockOpenings(out.text, 1)
  IN /\ Len(opens) = Len(deps)
     /\ \A k \in DOMAIN deps :
          /\ LineText(out.text[opens[k]]) = "        ." \o deps[k].name \o " = .{"
          /\ \A u \in Range(Url(deps[k])) :
               LineText(out.text[opens[k] + 1]) = "            .url = \"" \o u \o "\","
ExampleUrl(dep) == "https://github.com/example/" \o dep.name
\* the url an entry must show: its own when it is given one
GivenUrl(dep) == IF IsString(dep.url) THEN <<dep.url.v>> ELSE <<>>
\* the url an entry must show: its own unless empty or absent, then the
\* example
GivenOrExampleUrl(dep) ==
  IF IsString(dep.url) /\ dep.url.v # "" THEN <<dep.url.v>> ELSE <<ExampleUrl(dep)>>
ZonCall == Done("generate_build_zon") /\ Returned /\ call.hasArgs
           /\ IsArray(call.args.dependencies)

\* C10 as first stated: one block per entry, in list order, under the
\* entry's name and with the entry's url as given; an entry given a url
\* never shows the example URL in its place.
C10_GivenUrlNeverReplaced ==
  ZonCall => ZonBlocksAre(outcome, call.args.dependencies.v, GivenUrl)
\* C10: for every list of dependencies passed to generate_build_zon the
\* output holds exactly one dependency block per entry, in list order, each
\* under the entry's name and with the entry's url written as given when
\* that url is a non-empty string; an entry whose url is absent or empty
\* gets the example URL of its name.
C10_BlocksPerEntry ==
  ZonCall => ZonBlocksAre(outcome, call.args.dependencies.v, GivenOrExampleUrl)
C10_Witness ==
  /\ ZonCall
  /\ Len(call.args.dependencies.v) = 2
  /\ call.args.dependencies.v[1] = [name |-> "json", url |-> Str("https://x/y")]
  /\ call.args.dependencies.v[2].url = Undefined
  /\ OutputContains(outcome, ".url = \"https://x/y\",")

(***************************************************************************)
(* Properties of the code generator.                                       *)
(***************************************************************************)
\* the line that opens each main template
TemplateOpening ==
  [struct |-> "pub const MyStruct = struct {",
   enum |-> "pub const MyEnum = enum {",
   union |-> "pub const MyUnion = union(enum) {",
   function |-> "pub fn process(input: []const u8) "]
\* the lines of out that begin with prefix, by position
LinesStarting(out, prefix) ==
  {i \in DOMAIN out.text : StartsWith(LineText(out.text[i]), prefix)}
TemplatesIn(out) ==
  {t \in DOMAIN TemplateOpening : LinesStarting(out, TemplateOpening[t]) # {}}
TemplateByPriority(features) ==
  IF "struct" \in features THEN "struct"
  ELSE IF "enum" \in features THEN "enum"
  ELSE IF "union" \in features THEN "union"
  ELSE "function"

\* C11: for every requirements value the generated code holds exactly one
\* main template, once, and it is the struct template if 'struct' is a
\* feature, else the enum template if 'enum' is, else the union template if
\* 'union' is, else the function template (also when no feature is given).
C11_OneTemplateByPriority ==
  Done("generateZigCode") =>
    /\ TemplatesIn(outcome) = {TemplateByPriority(call.args.features)}
    /\ \A t \in TemplatesIn(outcome) :
         Cardinality(LinesStarting(outcome, TemplateOpening[t])) = 1

\* the default: no template feature at all, and the function template written
C11_Witness ==
  /\ Done("generateZigCode")
  /\ call.args.features = {"create", "type"}
  /\ TemplatesIn(outcome) = {"function"}

\* the text that the keyword search reads, from the arguments of the call:
\* the prompt and, when one is given, the context, in lower case
SearchedText ==
  ToLowerCase(call.args.prompt.v) \o " "
  \o (IF Truthy(call.args.context) THEN ToLowerCase(call.args.context.v) ELSE "")
Occurs(word) == StrIncludes(SearchedText, word)
TestingWords == {"test", "verify", "check", "validate"}
ErrorHandlingWords == {"error", "handle", "catch", "try", "fail"}
PerformanceWords == {"fast", "optimize", "performance", "efficient", "speed"}
FeatureWords ==
  {"create", "implement", "build", "function", "struct", "type", "enum", "union"}
\* the opening lines of the test blocks of a report, in order
TestBlocks(out) ==
  LET IsTest(line) == StartsWith(LineText(line), "test \"")
      found == SelectSeq(out.text, IsTest)
  IN [i \in DOMAIN found |-> LineText(found[i])]
ExpectErrorLine == "    try testing.expectError(Error.InvalidInput, process(\"\"));"
HasLine(out, str) == \E i \in DOMAIN out.text : LineText(out.text[i]) = str

\* C12: a prompt that contains "struct" and "test" (with any context) gets a
\* struct definition followed by exactly two test blocks, "basic
\* functionality" and "edge cases"; a prompt and context with no testing
\* keyword get no test block.
C12_StructWithTwoTests ==
  Done("generate_code") /\ Returned =>
    /\ StrIncludes(call.args.prompt.v, "struct") /\ StrIncludes(call.args.prompt.v, "test")
       => /\ TestBlocks(outcome) =
               <<"test \"basic functionality\" {", "test \"edge cases\" {">>
          /\ \E i \in LinesStarting(outcome, TemplateOpening.struct) :
               \A j \in LinesStarting(outcome, "test \"") : i < j
    /\ (\A w \in TestingWords : ~Occurs(w)) => TestBlocks(outcome) = <<>>

C12_Witness ==
  /\ Done("generate_code") /\ Returned
  /\ call.args.prompt = Str("struct test")
  /\ call.args.context = Str("union")
  /\ Len(TestBlocks(outcome)) = 2
  /\ TemplatesIn(outcome) = {"struct"}

\* C13 as stated: when the prompt contains "test", the error expectation
\* line is in the output if the prompt contains "error" and is absent if
\* the prompt does not contain "error".
C13_ExpectErrorIffPromptSaysError ==
  Done("generate_code") /\ Returned /\ StrIncludes(call.args.prompt.v, "test") =>
    (HasLine(outcome, ExpectErrorLine) <=> StrIncludes(call.args.prompt.v, "error"))

\* C13: when the prompt contains "test", the error expectation line is in
\* the output if the prompt contains "error", and is absent if no error
\* handling keyword (error, handle, catch, try, fail) occurs in the lower
\* case text of prompt and context.
C13_ExpectErrorByKeywords ==
  Done("generate_code") /\ Returned /\ StrIncludes(call.args.prompt.v, "test") =>
    /\ StrIncludes(call.args.prompt.v, "error") => HasLine(outcome, ExpectErrorLine)
    /\ (\A w \in ErrorHandlingWords : ~Occurs(w)) => ~HasLine(outcome, ExpectErrorLine)

C13_Witness ==
  /\ Done("generate_code") /\ Returned
  /\ call.args.prompt = Str("no test")
  /\ call.args.context = Undefined
  /\ Len(TestBlocks(outcome)) = 2
  /\ ~HasLine(outcome, ExpectErrorLine)

PerformanceNote == "    // Optimized for performance"

\* C14: for every requirements value, whichever template is selected, the
\* generated code holds the performance note comment if and only if the
\* performance flag is set.
C14_PerformanceNoteIffFlag ==
  Done("generateZigCode") =>
    (HasLine(outcome, PerformanceNote) <=> call.args.performance)

\* the top-level names a generated unit may refer to: how a line refers to
\* the name, and the beginning of the top-level line that declares it
TopLevelNames ==
  [std |-> [uses |-> {"std."}, decl |-> "const std = "],
   testing |-> [uses |-> {"testing."}, decl |-> "const testing = "],
   Error |-> [uses |-> {"Error.", "Error!"}, decl |-> "const Error = "],
   process |-> [uses |-> {" process(\"", "try process("}, decl |-> "pub fn process("]]
RefersTo(out, name) ==
  \E i \in DOMAIN out.text : \E u \in TopLevelNames[name].uses :
     StrIncludes(LineText(out.text[i]), u)
Declares(out, name) == LinesStarting(out, TopLevelNames[name].decl) # {}

\* C15: for every template and every setting of the three flags, each of
\* the names std, testing, Error and process that the generated code refers
\* to is declared at top level in the same output.
C15_SelfContained ==
  Done("generateZigCode") =>
    \A name \in DOMAIN TopLevelNames :
       RefersTo(outcome, name) => Declares(outcome, name)

\* C16: the feature set is exactly the set of feature keywords that occur
\* in the lower case text of prompt and context, and each of the three
\* flags is set exactly when a keyword of its category occurs there.
C16_KeywordsOfSearchedText ==
  Done("generate_code") /\ Returned =>
    LET requirements == parseRequirements(call.args.prompt, call.args.context)
    IN /\ requirements.features = {w \in FeatureWords : Occurs(w)}
       /\ requirements.errorHandling <=> \E w \in ErrorHandlingWords : Occurs(w)
       /\ requirements.testing <=> \E w \in TestingWords : Occurs(w)
       /\ requirements.performance <=> \E w \in PerformanceWords : Occurs(w)
       /\ outcome.text = generateCode(call.args.prompt, call.args.context).text
       /\ HasLine(outcome, "const testing = std.testing;") <=> requirements.testing
       /\ HasLine(outcome, "const Error = error{") <=> requirements.errorHandling

\* a keyword in upper case, one inside a longer word behind a negation, and
\* one that only the context holds
C16_Witness ==
  /\ Done("generate_code") /\ Returned
  /\ call.args.prompt = Str("ENUM fastest")
  /\ call.args.context = Str("Handle errors FAST")
  /\ parseRequirements(call.args.prompt, call.args.context) =
       [features |-> {"enum"}, errorHandling |-> TRUE, testing |-> TRUE,
        performance |-> TRUE]
  /\ TemplatesIn(outcome) = {"enum"}

GeneralFindings(out) == Section(out.text, <<"## General Optimizations:">>)

\* C20: for every code string that matches none of the general optimization
\* heuristics (the empty string among them) and every level of Debug,
\* ReleaseSafe, ReleaseFast, ReleaseSmall, optimize_code returns a report
\* whose general section holds no finding, only the line that says so, and
\* whose mode-specific block is the whole advice list of exactly that level.
C20_NoFindingsFullAdvice ==
  LET level == call.args.optimizationLevel
  IN (/\ Done("optimize_code")
      /\ IsString(call.args.code)
      /\ IsString(level)
      /\ level.v \in OptimizationLevels
      /\ Optimizations(call.args.code.v) = <<>>)
     => /\ Returned
        /\ GeneralFindings(outcome) =
             << <<"- No immediate optimization opportunities detected">> >>
        /\ ReportLabel(outcome) = level.v
        /\ BuildModeAdvice(outcome) = Bullets(buildModeOpts[level.v])
        /\ \A other \in OptimizationLevels \ {level.v} :
             BuildModeAdvice(outcome) # Bullets(buildModeOpts[other])
C20_Witness ==
  /\ Done("optimize_code")
  /\ Returned
  /\ call.args.code = Str(<<>>)
  /\ call.args.optimizationLevel = Str("ReleaseFast")
  /\ GeneralFindings(outcome) = <<NoOptimizations>>
  /\ Len(BuildModeAdvice(outcome)) = 4
  /\ BuildModeAdvice(outcome)[4] =
       <<"- ", "Use @setRuntimeSafety(true) for critical sections if needed">>

RECURSIVE BlocksOf(_)
\* the runs of lines that single blank lines separate
BlocksOf(ls) ==
  LET blanks == {i \in DOMAIN ls : ls[i] = ""}
  IN IF blanks = {} THEN <<ls>>
     ELSE LET i == CHOOSE b \in blanks : \A c \in blanks : b <= c
          IN <<SubSeq(ls, 1, i - 1)>> \o BlocksOf(SubSeq(ls, i + 1, Len(ls)))
HasFindings(section) == section.items # <<>>
Capitalised ==
  [issues |-> "Issues", recommendations |-> "Recommendations",
   patterns |-> "Patterns", metrics |-> "Metrics"]
HeaderOf(name) == getSectionEmoji(name) \o " **" \o Capitalised[name] \o ":**"

\* C19: for every findings object, the formatted report consists of exactly
\* the non-empty buckets in the order the object declares them: each is
\* one block of a header line (the bucket's symbol and its capitalised
\* name) followed by all its messages in their order, one blank line
\* separates a block from the next, a bucket without findings leaves no
\* line, the text has no white space at either end, and it is the empty
\* string only when every bucket is empty.
C19_ReportOfNonEmptyBuckets ==
  Done("formatAnalysisResults") =>
    LET filled == SelectSeq(call.args.sections, HasFindings)
        out == outcome.text
        blocks == BlocksOf(LinesOf(out))
    IN /\ Returned
       /\ (out = "") <=> (filled = <<>>)
       /\ out # "" =>
            /\ Len(blocks) = Len(filled)
            /\ \A i \in DOMAIN filled :
                 blocks[i] = <<HeaderOf(filled[i].name)>> \o filled[i].items
            /\ SubSeq(out, 1, 1) \notin WhiteSpace
            /\ SubSeq(out, Len(out), Len(out)) \notin WhiteSpace
C19_Witness ==
  /\ Done("formatAnalysisResults")
  /\ call.args.sections =
       << [name |-> "issues", items |-> <<>>],
          [name |-> "patterns",
           items |-> <<"U+2713 Using mutexes for thread synchronization",
                       "- Potential data race: non-atomic increment operations">>] >>
  /\ outcome.text =
       "U+2705 **Patterns:**\nU+2713 Using mutexes for thread synchronization\n"
       \o "- Potential data race: non-atomic increment operations"

\* the positive message of each classifier
DefaultMessages ==
  [analyzeCodeStyle |-> "U+2705 Code follows Zig style guidelines excellently",
   analyzePatterns |->
     "U+2705 No significant pattern issues detected - code follows modern Zig idioms",
   analyzeSafety |-> "U+2705 Code appears to follow safe programming practices",
   analyzePerformance |-> "U+2705 No immediate performance concerns detected",
   analyzeConcurrency |-> "U+2705 No concurrency patterns detected",
   analyzeMetaprogramming |->
     "U+2705 Basic metaprogramming - consider advanced patterns for optimization",
   analyzeTesting |-> "U+2705 No testing patterns analyzed",
   analyzeBuildSystem |-> "U+2705 No build system patterns detected",
   analyzeInterop |-> "U+2705 No interoperability patterns detected",
   analyzeCodeMetrics |-> "U+2705 Code metrics within reasonable bounds",
   analyzeModernZigPatterns |-> "U+2705 Code uses modern Zig patterns"]
\* the findings a report shows: its lines that open with a dash or a check
\* mark
FindingLines(report) ==
  SelectSeq(LinesOf(report),
            LAMBDA line : StartsWith(line, "- ") \/ StartsWith(line, "U+2713 "))
\* classifiers whose every rule looks for something that is in the text
PresenceClassifiers ==
  {"analyzePatterns", "analyzeSafety", "analyzeConcurrency",
   "analyzeMetaprogramming", "analyzeBuildSystem", "analyzeInterop",
   "analyzeModernZigPatterns"}

\* C18: for every input text, the empty one included, each of the eleven
\* classifiers returns a string that is not empty: a report that shows no
\* finding of any rule is the default positive message of that classifier,
\* and on the empty text, where no rule that looks for something in the
\* code can fire, that message is what comes back.
C18_ClassifierNeverEmpty ==
  (phase = "done" /\ call.name \in DOMAIN DefaultMessages) =>
    /\ Returned
    /\ outcome.text # ""
    /\ FindingLines(outcome.text) = <<>> => outcome.text = DefaultMessages[call.name]
    /\ outcome.text = DefaultMessages[call.name] => Len(LinesOf(outcome.text)) = 1
    /\ (call.args.code = "" /\ call.name \in PresenceClassifiers)
         => outcome.text = DefaultMessages[call.name]
C18_Witness ==
  /\ Done("analyzeConcurrency")
  /\ call.args.code = ""
  /\ outcome.text = "U+2705 No concurrency patterns detected"

Asked(method) == phase = "done" /\ trace # <<>> /\ trace[1] = method
\* the requests that went out during the call
Requests == {i \in DOMAIN trace : SubSeq(trace[i], 1, 9) = "axios.get"}
\* the read asked the network and the network refused
FetchRejected ==
  Asked("resources/read") /\ call.args.uri \in Fetched /\ ~call.args.response.ok
\* the search answered with data that holds no list of repositories
ListingUnreadable ==
  /\ Asked("resources/read") /\ call.args.uri = "zig://repos/popular"
  /\ call.args.response.ok /\ call.args.response.data.t # "search"

\* C22: a read whose documentation fetch or repository listing fails ends
\* with an McpError of code InternalError whose message is the context
\* followed by the message of the cause; no contents are returned for it, and
\* exactly one request went out.
C22_FetchFailureSurfaces ==
  /\ FetchRejected =>
       /\ outcome.kind = "McpError" /\ outcome.code = "InternalError"
       /\ outcome.message =
            <<IF call.args.uri = "zig://repos/popular"
              THEN "Failed to fetch popular repos: " ELSE "Failed to fetch Zig docs: ",
              call.args.response.error.message>>
       /\ Cardinality(Requests) = 1
  /\ ListingUnreadable =>
       /\ outcome.kind = "McpError" /\ outcome.code = "InternalError"
       /\ outcome.message =
            <<"Failed to fetch popular repos: ",
              "Cannot read properties of undefined (reading 'map')">>
       /\ Cardinality(Requests) = 1

C22_Witness ==
  /\ FetchRejected
  /\ call.args.uri = "zig://docs/std-lib"
  /\ call.args.response.error.message = "timeout of 10000ms exceeded"
  /\ outcome.kind = "McpError"
  /\ outcome.message[2] = "timeout of 10000ms exceeded"
  /\ trace = <<"resources/read", "fetchZigDocs",
               "axios.get https://ziglang.org/documentation/master/std.html">>

OnLadder(label, loops, nestedLoops, recursion) ==
  IF nestedLoops > 0 THEN label \in {Quadratic, "O(n^2) or worse"}
  ELSE IF loops > 0 THEN label = "O(n)"
  ELSE IF recursion > 0 THEN label \notin {Quadratic, "O(n)", "O(1)"}
  ELSE label = "O(1)"

\* C23: the complexity label that estimate_compute_units reports is chosen
\* by the ladder over the three pattern counts: a nested-loop match gives the
\* quadratic label, otherwise a loop match gives O(n), otherwise a recursion
\* match gives a label of its own, otherwise O(1); the recursion count has
\* no part in the label when a loop pattern matched.
C23_OneLadder ==
  (Done("estimate_compute_units") /\ Returned)
  => OnLadder(FieldOf(outcome.text, "- Estimated Complexity: "),
              MatchCount(ReLoops, call.args.code.v),
              MatchCount(ReNestedLoops, call.args.code.v),
              MatchCount(ReRecursion, call.args.code.v))

\* a function whose body, between its braces, holds a call of the function's
\* own name
SelfCalling(text) ==
  \E i \in DOMAIN text : \E j \in DOMAIN text : \E k \in DOMAIN text :
    /\ text[i] = "fn" /\ i < Len(text)
    /\ i + 1 < j /\ text[j] = "{" /\ \A m \in (i + 1)..(j - 1) : text[m] # "{"
    /\ j < k /\ k < Len(text) /\ text[k] = text[i + 1] /\ text[k + 1] = "("
    /\ LET close == CloseOf(text, j + 1, 1) IN close = 0 \/ k < close

\* C24: estimate_compute_units counts recursion, and puts recursion into its
\* label, only for a text that holds a function whose body calls that same
\* function: for a text without one, the report says 0 recursive patterns
\* and a label without recursion.
C24_RecursionIsSelfReference ==
  (Done("estimate_compute_units") /\ Returned /\ ~SelfCalling(call.args.code.v))
  => /\ FieldOf(outcome.text, "- Recursive Patterns: ") = "0"
     /\ FieldOf(outcome.text, "- Estimated Complexity: ") \in {Quadratic, "O(n)", "O(1)"}

(***************************************************************************)
(* Properties of the line scanner.                                         *)
(***************************************************************************)
Scanning == phase = "scanning" \/ (phase = "done" /\ outcome.kind = "depth")
\* the turns that opened a loop
Openings == {i \in DOMAIN trace : Test(PerformancePatterns.loopHead, trace[i].line)}
\* the turns whose second if statement ran
Closings == {i \in DOMAIN trace : Includes(trace[i].line, "}") /\ trace[i].between.inLoop}
\* the depth before turn i
DepthBefore(i) == IF i = 1 THEN 0
                  ELSE IF i - 1 \in Closings
                       THEN Max(0, trace[i - 1].between.currentDepth - 1)
                       ELSE trace[i - 1].between.currentDepth

\* C25: the depth counter goes up by one on a line that opens a loop and
\* then down by one on a line that holds '}' while inside a loop (a line
\* that does both goes up first, then down); it is never negative; the value
\* returned is the largest depth reached, 0 when no line opens a loop.
C25_DepthScan ==
  Scanning =>
    /\ outcome.locals.currentDepth >= 0
    /\ \A i \in DOMAIN trace :
         /\ trace[i].between.currentDepth =
              DepthBefore(i) + (IF i \in Openings THEN 1 ELSE 0)
         /\ trace[i].between.currentDepth >= 0
    /\ Len(trace) > 0 =>
         outcome.locals.currentDepth =
           trace[Len(trace)].between.currentDepth
             - (IF Len(trace) \in Closings THEN 1 ELSE 0)
    /\ outcome.kind = "depth" =>
         /\ outcome.value =
              IF Openings = {} THEN 0
              ELSE CHOOSE d \in {trace[i].between.currentDepth : i \in Openings} :
                     \A i \in Openings : trace[i].between.currentDepth <= d
         /\ outcome.value = calculateNestedLoopDepth(call.args.code.v)

C25_Witness ==
  /\ phase = "done" /\ outcome.kind = "depth" /\ outcome.value = 2
  /\ call.args.code.v = "for (a) {\nfor (c) |v| { s += v; }\n    while (b) {"
  /\ trace[2].between.currentDepth = 2
  /\ outcome.locals.currentDepth = 2

\* C26: after every line read, inLoop is true exactly when the depth is
\* above 0, and the maximum is at least the depth; the decrement is applied
\* to a depth of at least 1 only, so Math.max(0, ...) changes no value; the
\* value returned is at most the number of lines that open a loop.
C26_ScanLocals ==
  Scanning =>
    /\ outcome.locals.inLoop <=> outcome.locals.currentDepth > 0
    /\ outcome.locals.maxDepth >= outcome.locals.currentDepth
    /\ \A i \in Closings : trace[i].between.currentDepth >= 1
    /\ outcome.locals.maxDepth <= Cardinality(Openings)

C26_Witness ==
  /\ phase = "done" /\ outcome.kind = "depth" /\ outcome.value = 1
  /\ Cardinality(Openings) = 3
  /\ Cardinality(Closings) = 3
  /\ ~outcome.locals.inLoop

(***************************************************************************)
(* Properties of parseRequirements.                                        *)
(***************************************************************************)
IsPrefix(s, t) == Len(s) <= Len(t) /\ SubSeq(t, 1, Len(s)) = s
\* the call at hand asks for what the call written down asked for, with
\* text appended to the prompt, a context added, or text appended to the
\* context
Extends ==
  /\ Done("parseRequirements")
  /\ kept.call.name = "parseRequirements"
  /\ IsPrefix(kept.call.args.prompt.v, call.args.prompt.v)
  /\ IF IsString(kept.call.args.context)
     THEN IsString(call.args.context)
          /\ IsPrefix(kept.call.args.context.v, call.args.context.v)
     ELSE TRUE

\* C28: parseRequirements is monotone in its text: with text appended to
\* the prompt, a context added or text appended to the context, every
\* keyword of the feature set is still in the feature set, and each of
\* errorHandling, testing and performance that was true is still true.
C28_ParseMonotone ==
  Extends =>
    /\ kept.outcome.v.features \subseteq outcome.v.features
    /\ kept.outcome.v.errorHandling => outcome.v.errorHandling
    /\ kept.outcome.v.testing => outcome.v.testing
    /\ kept.outcome.v.performance => outcome.v.performance

C28_Witness ==
  /\ Extends
  /\ kept.call.args = [prompt |-> Str("TEST err"), context |-> Undefined]
  /\ call.args = [prompt |-> Str("TEST error"), context |-> Str("struct")]
  /\ kept.outcome.v = [features |-> {}, errorHandling |-> FALSE,
                       testing |-> TRUE, performance |-> FALSE]
  /\ outcome.v = [features |-> {"struct"}, errorHandling |-> TRUE,
                  testing |-> TRUE, performance |-> FALSE]

(***************************************************************************)
(* Properties of the performance report.                                   *)
(***************************************************************************)
\* the report shows a finding of nested loops
NestedLoopFinding(report) ==
  \E i \in DOMAIN LinesOf(report) :
    \/ LinesOf(report)[i]
         = "- Nested loops present - consider algorithm optimization for large datasets"
    \/ StartsWith(LinesOf(report)[i], "- Deep nested loops detected (depth ")
\* the summary of the report says quadratic or higher
QuadraticSummary(report) ==
  \E i \in DOMAIN LinesOf(report) :
    LinesOf(report)[i] \in {"- Estimated complexity: O(nU+00B2)",
                            "- Estimated complexity: O(nU+00B3) or higher"}

\* C29: a report of analyzePerformance shows a nested-loop finding ('Nested
\* loops present' or 'Deep nested loops detected') exactly when its summary
\* estimates a complexity of O(n^2) or higher.
C29_FindingAndSummaryAgree ==
  Done("analyzePerformance")
  => (NestedLoopFinding(outcome.text) <=> QuadraticSummary(outcome.text))

(***************************************************************************)
(* Properties of the code metrics.                                         *)
(***************************************************************************)
HasMetric(report, label) ==
  \E i \in DOMAIN LinesOf(report) : StartsWith(LinesOf(report)[i], label)
\* what follows the label on the line of the report that opens with it
MetricOf(report, label) ==
  LET line == CHOOSE l \in Range(LinesOf(report)) : StartsWith(l, label)
  IN SubSeq(line, Len(label) + 1, Len(line))
\* the number a string of digits writes, among those up to most; -1 for a
\* string that writes none (NaN, Infinity)
NumberOf(str, most) ==
  IF \E n \in 0..most : ToString(n) = str
  THEN CHOOSE n \in 0..most : ToString(n) = str
  ELSE -1
\* the tenths that a percentage of one decimal writes; -1 when it writes none
TenthsOf(str) ==
  IF \E t \in 0..1000 : str = ToString(t \div 10) \o "." \o ToString(t % 10) \o "%"
  THEN CHOOSE t \in 0..1000 : str = ToString(t \div 10) \o "." \o ToString(t % 10) \o "%"
  ELSE -1
\* the lines of a text that open, after blanks, with two slashes
CommentLinesOf(code) ==
  {i \in DOMAIN LinesOf(code) : StartsWith(TrimStart(LinesOf(code)[i]), "//")}
BlankLinesOf(code) ==
  {i \in DOMAIN LinesOf(code) : Trim(LinesOf(code)[i]) = ""}
\* the one-decimal percentage nearest to part out of whole, in tenths
NearestTenths(tenths, part, whole) ==
  /\ 2 * (tenths * whole - 1000 * part) <= whole
  /\ 2 * (1000 * part - tenths * whole) <= whole

\* the numbers of a report of analyzeCodeMetrics on a text of n characters
MetricsShown(report, n) ==
  [totalLines |-> NumberOf(MetricOf(report, "- Total lines: "), n + 1),
   codeLines |-> NumberOf(MetricOf(report, "- Code lines: "), n + 1),
   commentLines |-> NumberOf(MetricOf(report, "- Comment lines: "), n + 1),
   ratio |-> TenthsOf(MetricOf(report, "- Documentation ratio: ")),
   functions |-> NumberOf(MetricOf(report, "- Function count: "), n + 1),
   complexity |->
     NumberOf(SubSeq(MetricOf(report, "- Cyclomatic complexity: ~"), 1,
                     Len(MetricOf(report, "- Cyclomatic complexity: ~"))
                       - Len(" per function")),
              n + 1)]

\* what C30 asks of the numbers shown for a text
MetricsConsistent(shown, report, code) ==
  /\ shown.totalLines >= 1
  /\ shown.totalLines = Len(LinesOf(code))
  /\ shown.codeLines >= 0 /\ shown.commentLines >= 0
  /\ shown.commentLines = Cardinality(CommentLinesOf(code))
  /\ shown.codeLines + shown.commentLines + Cardinality(BlankLinesOf(code))
       = shown.totalLines
  /\ shown.ratio >= 0 /\ shown.ratio <= 1000
  /\ NearestTenths(shown.ratio, shown.commentLines, shown.totalLines)
  /\ shown.functions >= 0
  /\ HasMetric(report, "- Average lines per function: ") <=> shown.functions >= 1
  /\ HasMetric(report, "- Average lines per function: ") =>
       \E avg \in 0..shown.codeLines :
         /\ MetricOf(report, "- Average lines per function: ") = ToString(avg)
         /\ 2 * (avg * shown.functions - shown.codeLines) <= shown.functions
         /\ 2 * (shown.codeLines - avg * shown.functions) <= shown.functions
  /\ shown.complexity >= 0

\* C30: every number of a report of analyzeCodeMetrics is a finite number
\* (no quotient has a divisor of 0), for every text, the empty one included:
\* the total of lines is at least 1, code lines and comment lines add up to
\* the total less the blank lines, the documentation ratio is the percentage
\* of comment lines and lies between 0 and 100, the average of lines per
\* function is shown exactly when a function was counted, and the
\* cyclomatic complexity is a number although no function was counted.
C30_MetricsConsistent ==
  Done("analyzeCodeMetrics") =>
    /\ \A label \in {"- Total lines: ", "- Code lines: ", "- Comment lines: ",
                     "- Documentation ratio: ", "- Function count: ",
                     "- Cyclomatic complexity: ~"} : HasMetric(outcome.text, label)
    /\ MetricsConsistent(MetricsShown(outcome.text, Len(call.args.code)),
                         outcome.text, call.args.code)

C30_Witness ==
  /\ Done("analyzeCodeMetrics")
  /\ call.args.code = ""
  /\ MetricsShown(outcome.text, 0) =
       [totalLines |-> 1, codeLines |-> 0, commentLines |-> 0, ratio |-> 0,
        functions |-> 0, complexity |-> 0]
  /\ ~HasMetric(outcome.text, "- Average lines per function: ")

====
